---------------------------- MODULE Spec2Model ----------------------------
(***************************************************************************)
(* Catalyst-proximity screening and IV analytics of the options research   *)
(* utilities (catalyst_screener.py, iv_analytics.py, options_research.py). *)
(*                                                                         *)
(* Every function of these modules is a pure function of its arguments.    *)
(* A behaviour of the model is one call: the initial state holds the       *)
(* operation and its arguments (pc = "ready"), the operation's action      *)
(* runs the function body and stores what it returns (pc = "done").        *)
(*                                                                         *)
(* Text is a sequence of one-character strings, so that slicing and        *)
(* parsing are computed and not assumed.  Non-integer numbers are scaled   *)
(* integers; the scale is stated where a quantity is introduced.           *)
(***************************************************************************)
EXTENDS Integers, Sequences, FiniteSets, TLC

VARIABLES pc, op, args, ret

vars == <<pc, op, args, ret>>

(***************************************************************************)
(* Bounds of the model.                                                    *)
(***************************************************************************)
\* longest list of expiration strings handed to the date-window functions
MaxLen == 3

(***************************************************************************)
(* Python's None, and the value of `ret` before the call has returned.     *)
(***************************************************************************)
None == [none |-> TRUE]

Some(v) == [none |-> FALSE, val |-> v]

NoResult == [pending |-> TRUE]

SeqsUpTo(S, n) == UNION {[1..k -> S] : k \in 0..n}

Min2(a, b) == IF a <= b THEN a ELSE b

Max2(a, b) == IF a >= b THEN a ELSE b

Abs(a) == IF a < 0 THEN -a ELSE a

(***************************************************************************)
(* datetime.date: a record [y, m, d]; differences of dates are taken on    *)
(* proleptic Gregorian ordinals, as date.__sub__ does.                     *)
(***************************************************************************)
Date(y, m, d) == [y |-> y, m |-> m, d |-> d]

IsLeap(y) == (y % 4 = 0) /\ ((y % 100 # 0) \/ (y % 400 = 0))

DaysInMonth(y, m) ==
    IF m = 2 THEN (IF IsLeap(y) THEN 29 ELSE 28)
    ELSE IF m \in {4, 6, 9, 11} THEN 30 ELSE 31

DaysBeforeMonth(y, m) ==
    <<0, 31, 59, 90, 120, 151, 181, 212, 243, 273, 304, 334>>[m]
        + (IF m > 2 /\ IsLeap(y) THEN 1 ELSE 0)

DaysBeforeYear(y) ==
    (y - 1) * 365 + ((y - 1) \div 4) - ((y - 1) \div 100) + ((y - 1) \div 400)

ToOrdinal(dt) == DaysBeforeYear(dt.y) + DaysBeforeMonth(dt.y, dt.m) + dt.d

\* (a - b).days
DaysBetween(a, b) == ToOrdinal(a) - ToOrdinal(b)

(***************************************************************************)
(* datetime.strptime(text, "%Y-%m-%d").date()                              *)
(*                                                                         *)
(* The format compiles to  \d\d\d\d - (1[0-2]|0[1-9]|[1-9]) -              *)
(* (3[01]|[12]\d|0[1-9]|[1-9]| [1-9]) ; the text must match from its first *)
(* character, nothing may remain after the match, and the fields must name *)
(* a day of the calendar.  Everything else is a ValueError.                *)
(***************************************************************************)
Digits == {"0", "1", "2", "3", "4", "5", "6", "7", "8", "9"}

DigitVal(c) ==
    CASE c = "0" -> 0 [] c = "1" -> 1 [] c = "2" -> 2 [] c = "3" -> 3
      [] c = "4" -> 4 [] c = "5" -> 5 [] c = "6" -> 6 [] c = "7" -> 7
      [] c = "8" -> 8 [] c = "9" -> 9

ValueError == [ok |-> FALSE]

At(t, i) == IF i >= 1 /\ i <= Len(t) THEN t[i] ELSE "<end>"

\* the ways the month field can match at position i, in the order the
\* regular expression tries them: <<value, characters consumed>>
MonthMatches(t, i) ==
    LET a == At(t, i)
        b == At(t, i + 1)
    IN  (IF a = "1" /\ b \in {"0", "1", "2"}
            THEN <<(<<10 + DigitVal(b), 2>>)>> ELSE <<>>)
        \o (IF a = "0" /\ b \in (Digits \ {"0"})
            THEN <<(<<DigitVal(b), 2>>)>> ELSE <<>>)
        \o (IF a \in (Digits \ {"0"})
            THEN <<(<<DigitVal(a), 1>>)>> ELSE <<>>)

\* the first way the day field matches at position i (nothing follows the
\* day in the format, so the first alternative that matches is the match)
DayMatches(t, i) ==
    LET a == At(t, i)
        b == At(t, i + 1)
    IN  IF a = "3" /\ b \in {"0", "1"} THEN <<(<<30 + DigitVal(b), 2>>)>>
        ELSE IF a \in {"1", "2"} /\ b \in Digits
            THEN <<(<<10 * DigitVal(a) + DigitVal(b), 2>>)>>
        ELSE IF a = "0" /\ b \in (Digits \ {"0"}) THEN <<(<<DigitVal(b), 2>>)>>
        ELSE IF a \in (Digits \ {"0"}) THEN <<(<<DigitVal(a), 1>>)>>
        ELSE IF a = " " /\ b \in (Digits \ {"0"}) THEN <<(<<DigitVal(b), 2>>)>>
        ELSE <<>>

\* the month alternatives after which "-" and a day match
MonthDayMatches(t) ==
    SelectSeq(MonthMatches(t, 6),
              LAMBDA mm : At(t, 6 + mm[2]) = "-"
                          /\ DayMatches(t, 7 + mm[2]) # <<>>)

strptime(t) ==
    IF ~(\A i \in 1..4 : At(t, i) \in Digits) \/ At(t, 5) # "-"
        THEN ValueError
    ELSE IF MonthDayMatches(t) = <<>> THEN ValueError
    ELSE LET mm == MonthDayMatches(t)[1]
             dd == DayMatches(t, 7 + mm[2])[1]
             y  == 1000 * DigitVal(t[1]) + 100 * DigitVal(t[2])
                      + 10 * DigitVal(t[3]) + DigitVal(t[4])
         IN  IF 6 + mm[2] + dd[2] # Len(t) THEN ValueError  \* unconverted data remains
             ELSE IF y < 1 \/ dd[1] > DaysInMonth(y, mm[1]) THEN ValueError
             ELSE [ok |-> TRUE, date |-> Date(y, mm[1], dd[1])]

\* text[:10]
Slice10(s) == SubSeq(s, 1, Min2(Len(s), 10))

\* datetime.strptime(exp_str[:10], "%Y-%m-%d").date()
ParseExp(s) == strptime(Slice10(s))

(***************************************************************************)
(* date.strftime("%Y-%m-%d") for a year of four digits.                    *)
(***************************************************************************)
DigitChar(n) == <<"0", "1", "2", "3", "4", "5", "6", "7", "8", "9">>[n + 1]

strftime(dt) ==
    <<DigitChar(dt.y \div 1000), DigitChar((dt.y \div 100) % 10),
      DigitChar((dt.y \div 10) % 10), DigitChar(dt.y % 10), "-",
      DigitChar(dt.m \div 10), DigitChar(dt.m % 10), "-",
      DigitChar(dt.d \div 10), DigitChar(dt.d % 10)>>

(***************************************************************************)
(* catalyst_screener.filter_by_catalyst_proximity                          *)
(***************************************************************************)
RECURSIVE proximity_loop(_, _, _, _, _, _)
proximity_loop(exps, i, catalyst_dt, days_before, days_after, filtered) ==
    IF i > Len(exps) THEN filtered
    ELSE LET p == ParseExp(exps[i])
         IN  IF ~p.ok
                THEN proximity_loop(exps, i + 1, catalyst_dt, days_before,
                                    days_after, filtered)
             ELSE LET days_diff == DaysBetween(p.date, catalyst_dt)
                  IN  proximity_loop(exps, i + 1, catalyst_dt, days_before,
                        days_after,
                        IF -days_before <= days_diff /\ days_diff <= days_after
                            THEN Append(filtered, exps[i]) ELSE filtered)

\* the window with its upper end left open (days_diff < days_after)
filter_by_catalyst_proximity_open(exps, catalyst_dt, days_before, days_after) ==
    proximity_loop(exps, 1, catalyst_dt, days_before, days_after - 1, <<>>)

filter_by_catalyst_proximity(exps, catalyst_dt, days_before, days_after) ==
    proximity_loop(exps, 1, catalyst_dt, days_before, days_after, <<>>)

(***************************************************************************)
(* catalyst_screener.find_nearest_post_catalyst_expiration                 *)
(***************************************************************************)
RECURSIVE nearest_loop(_, _, _, _, _, _)
nearest_loop(exps, i, catalyst_dt, min_days_after, max_days_after, valid) ==
    IF i > Len(exps) THEN valid
    ELSE LET p == ParseExp(exps[i])
         IN  IF ~p.ok
                THEN nearest_loop(exps, i + 1, catalyst_dt, min_days_after,
                                  max_days_after, valid)
             ELSE LET days_diff == DaysBetween(p.date, catalyst_dt)
                  IN  nearest_loop(exps, i + 1, catalyst_dt, min_days_after,
                        max_days_after,
                        IF min_days_after <= days_diff /\ days_diff <= max_days_after
                            THEN Append(valid, <<exps[i], days_diff>>) ELSE valid)

\* valid_expirations.sort(key=lambda x: x[1]): list.sort is stable, an
\* element goes after every element whose key is not greater
RECURSIVE StableInsert(_, _)
StableInsert(sorted, x) ==
    IF sorted = <<>> THEN <<x>>
    ELSE IF Head(sorted)[2] <= x[2]
        THEN <<Head(sorted)>> \o StableInsert(Tail(sorted), x)
    ELSE <<x>> \o sorted

RECURSIVE SortByDays(_)
SortByDays(s) ==
    IF s = <<>> THEN <<>>
    ELSE StableInsert(SortByDays(SubSeq(s, 1, Len(s) - 1)), s[Len(s)])

\* a sort that puts an element before the elements of equal key
RECURSIVE UnstableInsert(_, _)
UnstableInsert(sorted, x) ==
    IF sorted = <<>> THEN <<x>>
    ELSE IF Head(sorted)[2] < x[2]
        THEN <<Head(sorted)>> \o UnstableInsert(Tail(sorted), x)
    ELSE <<x>> \o sorted

RECURSIVE SortByDaysUnstable(_)
SortByDaysUnstable(s) ==
    IF s = <<>> THEN <<>>
    ELSE UnstableInsert(SortByDaysUnstable(SubSeq(s, 1, Len(s) - 1)), s[Len(s)])

find_nearest_post_catalyst_expiration_unstable(exps, catalyst_dt, min_days_after, max_days_after) ==
    LET valid == nearest_loop(exps, 1, catalyst_dt, min_days_after,
                              max_days_after, <<>>)
    IN  IF valid = <<>> THEN None
        ELSE Some(SortByDaysUnstable(valid)[1][1])

find_nearest_post_catalyst_expiration(exps, catalyst_dt, min_days_after, max_days_after) ==
    LET valid == nearest_loop(exps, 1, catalyst_dt, min_days_after,
                              max_days_after, <<>>)
    IN  IF valid = <<>> THEN None
        ELSE Some(SortByDays(valid)[1][1])

(***************************************************************************)
(* The calls of the date-window functions.                                 *)
(***************************************************************************)
\* catalyst dates handed in as date objects
CatalystDates == {Date(2024, 1, 25), Date(2024, 2, 28)}

Garbage == <<"g", "a", "r", "b", "a", "g", "e">>

\* expiration strings: days around the catalysts on both sides of every
\* window end, one across the leap day, the same day spelt three ways, a day
\* that is not in the calendar, text that is no date, and the empty string
ExpirationPool ==
    { strftime(Date(2024, 1, 17)), strftime(Date(2024, 1, 18)),
      strftime(Date(2024, 1, 26)), strftime(Date(2024, 1, 28)),
      strftime(Date(2024, 1, 29)), strftime(Date(2024, 3, 1)),
      <<"2", "0", "2", "4", "-", "1", "-", "2", "6">>,
      strftime(Date(2024, 1, 26)) \o <<"T", "1", "6", ":", "0", "0">>,
      strftime(Date(2024, 2, 30)),
      Garbage,
      <<>> }

ExpirationLists == SeqsUpTo(ExpirationPool, MaxLen)

\* <<days_before, days_after>>: the default, the window combine_catalysts_with_options
\* uses, and the window of a single day
ProximityWindows == {<<7, 3>>, <<5, 7>>, <<0, 0>>}

\* <<min_days_after, max_days_after>>: the default and two narrower ones
NearestWindows == {<<1, 14>>, <<1, 3>>, <<4, 40>>}

InitDates ==
    /\ pc = "ready"
    /\ ret = NoResult
    /\ \E e \in ExpirationLists, c \in CatalystDates :
        \/ \E w \in ProximityWindows :
            args = [f |-> "filter_by_catalyst_proximity", expirations |-> e,
                    catalyst |-> c, lo |-> w[1], hi |-> w[2]]
        \/ \E w \in NearestWindows :
            args = [f |-> "find_nearest_post_catalyst_expiration", expirations |-> e,
                    catalyst |-> c, lo |-> w[1], hi |-> w[2]]
    /\ op = args.f

FilterByCatalystProximity ==
    /\ pc = "ready"
    /\ op = "filter_by_catalyst_proximity"
    /\ ret' = filter_by_catalyst_proximity(args.expirations, args.catalyst,
                                           args.lo, args.hi)
    /\ pc' = "done"
    /\ UNCHANGED <<op, args>>

FindNearestPostCatalystExpiration ==
    /\ pc = "ready"
    /\ op = "find_nearest_post_catalyst_expiration"
    /\ ret' = find_nearest_post_catalyst_expiration(args.expirations,
                                                    args.catalyst, args.lo, args.hi)
    /\ pc' = "done"
    /\ UNCHANGED <<op, args>>

NextDates == FilterByCatalystProximity \/ FindNearestPostCatalystExpiration

SpecDates == InitDates /\ [][NextDates]_vars

(***************************************************************************)
(* Claims about the date-window functions.                                 *)
(***************************************************************************)
Parses(e) == ParseExp(e).ok

\* the day-difference of a parseable entry from the catalyst
DiffOf(e, c) == DaysBetween(ParseExp(e).date, c)

InClosedWindow(e, c, lo, hi) ==
    Parses(e) /\ lo <= DiffOf(e, c) /\ DiffOf(e, c) <= hi

NearestCandidates ==
    {i \in 1..Len(args.expirations) :
        InClosedWindow(args.expirations[i], args.catalyst, args.lo, args.hi)}

\* C2: find_nearest_post_catalyst_expiration returns None exactly when no
\* parseable entry lies in [min_days_after, max_days_after]; otherwise it
\* returns the entry of the window with the smallest day-difference, and of
\* several with that difference the first of the input list.
C2_NearestIsFirstMinimum ==
    (pc = "done" /\ op = "find_nearest_post_catalyst_expiration") =>
        /\ (ret = None) <=> (NearestCandidates = {})
        /\ NearestCandidates # {} =>
            \E i \in NearestCandidates :
                /\ ret = Some(args.expirations[i])
                /\ \A j \in NearestCandidates :
                    /\ DiffOf(args.expirations[j], args.catalyst)
                         >= DiffOf(args.expirations[i], args.catalyst)
                    /\ (DiffOf(args.expirations[j], args.catalyst)
                          = DiffOf(args.expirations[i], args.catalyst)) => j >= i

\* two different strings of the same, nearest day and a later day in the
\* window: the first of the two is returned
C2_Witness ==
    /\ pc = "done" /\ op = "find_nearest_post_catalyst_expiration"
    /\ Cardinality(NearestCandidates) = 3
    /\ \E i, j \in NearestCandidates :
        /\ i < j
        /\ args.expirations[i] # args.expirations[j]
        /\ DiffOf(args.expirations[i], args.catalyst)
             = DiffOf(args.expirations[j], args.catalyst)
        /\ \A k \in NearestCandidates :
             DiffOf(args.expirations[k], args.catalyst)
               >= DiffOf(args.expirations[i], args.catalyst)
        /\ ret = Some(args.expirations[i])

\* the empty list has no candidate and yields None
C2_WitnessNone ==
    /\ pc = "done" /\ op = "find_nearest_post_catalyst_expiration"
    /\ args.expirations = <<>>
    /\ ret = None

(***************************************************************************)
(* Option chains.                                                          *)
(*                                                                         *)
(* A DataFrame is [columns, rows]: the set of its column names and the     *)
(* sequence of its rows in index order.  A row is a record of the four     *)
(* columns the screener reads; a column that is not in `columns` is never  *)
(* read.  Strikes and prices are whole dollars.  An implied volatility is  *)
(* a whole number of IVUnit-ths, so 0.35 is 3500 and the percentage form   *)
(* 35.0 is 350000.  The expiration cell is text or a date object.          *)
(***************************************************************************)
IVUnit == 10000

ChainColumns == {"strike", "expiration", "option_type", "implied_volatility"}

\* DataFrame()
EmptyFrame == [columns |-> {}, rows |-> <<>>]

TextCell(t) == [isdate |-> FALSE, text |-> t]

DateCell(dt) == [isdate |-> TRUE, date |-> dt]

Row(strike, expiration, option_type, iv) ==
    [strike |-> strike, expiration |-> expiration, option_type |-> option_type,
     implied_volatility |-> iv]

\* parse_exp: a date object as it is, else str(x)[:10] parsed, else None
parse_exp(x) ==
    IF x.isdate THEN Some(x.date)
    ELSE IF ParseExp(x.text).ok THEN Some(ParseExp(x.text).date)
    ELSE None

\* df["_exp_date"] > earnings_date, row by row; a None cell compares False
is_after_earnings_inclusive(exp_date, earnings_date) ==
    ~exp_date.none /\ ToOrdinal(exp_date.val) >= ToOrdinal(earnings_date)

is_after_earnings(exp_date, earnings_date) ==
    ~exp_date.none /\ ToOrdinal(exp_date.val) > ToOrdinal(earnings_date)

\* abs(strike - underlying_price) / underlying_price * 100 <= max_strike_distance_pct,
\* for a positive price, with the division cleared
within_strike_distance_signed(strike, underlying_price, max_strike_distance_pct) ==
    (strike - underlying_price) * 100 <= max_strike_distance_pct * underlying_price

within_strike_distance(strike, underlying_price, max_strike_distance_pct) ==
    Abs(strike - underlying_price) * 100 <= max_strike_distance_pct * underlying_price

\* An IV that went through a division is <<n, d>>, the quotient n / d of
\* whole numbers with d > 0, so that no division loses anything.
QuotientAtLeast(q, bound) == q[1] >= bound * q[2]

QuotientLess(q, bound) == q[1] < bound * q[2]

QuotientGreater(q, bound) == q[1] > bound * q[2]

\* lambda x: x / 100 if x > 10 else x
normalize_iv_screen(x) ==
    IF QuotientGreater(x, 10 * IVUnit) THEN <<x[1], 100 * x[2]>> ELSE x

\* the latest of the parsed dates
MaxOrdinal(rows) ==
    CHOOSE o \in {ToOrdinal(parse_exp(rows[i].expiration).val) : i \in 1..Len(rows)} :
        \A i \in 1..Len(rows) : o >= ToOrdinal(parse_exp(rows[i].expiration).val)

\* Series.min() of the parsed dates
MinOrdinal(rows) ==
    CHOOSE o \in {ToOrdinal(parse_exp(rows[i].expiration).val) : i \in 1..Len(rows)} :
        \A i \in 1..Len(rows) : o <= ToOrdinal(parse_exp(rows[i].expiration).val)

(***************************************************************************)
(* catalyst_screener.screen_options_before_earnings                        *)
(***************************************************************************)
screen_options_before_earnings(options_df, earnings_date, underlying_price, min_iv, max_strike_distance_pct, option_type) ==
    IF options_df.rows = <<>> \/ options_df.columns = {} THEN EmptyFrame
    ELSE
    LET cols == options_df.columns
        typed(rich) ==
            IF option_type.none \/ "option_type" \notin cols THEN rich
            ELSE SelectSeq(rich, LAMBDA r : r.option_type = option_type.val)
        rich_of(near) ==
            IF min_iv.none \/ "implied_volatility" \notin cols THEN near
            ELSE SelectSeq(near,
                   LAMBDA r : QuotientAtLeast(
                                normalize_iv_screen(<<r.implied_volatility, 1>>),
                                min_iv.val))
        near_of(first) ==
            IF "strike" \notin cols THEN first
            ELSE SelectSeq(first,
                   LAMBDA r : within_strike_distance(r.strike, underlying_price,
                                                     max_strike_distance_pct))
        from_near(near) ==
            IF near = <<>> THEN EmptyFrame
            ELSE [columns |-> cols, rows |-> typed(rich_of(near))]
        from_first(first) ==
            IF first = <<>> THEN EmptyFrame ELSE from_near(near_of(first))
        first_of(after) ==
            IF after = <<>> THEN <<>>
            ELSE SelectSeq(after,
                   LAMBDA r : ToOrdinal(parse_exp(r.expiration).val) = MinOrdinal(after))
    IN  IF "expiration" \notin cols THEN from_first(options_df.rows)
        ELSE from_first(first_of(SelectSeq(options_df.rows,
               LAMBDA r : is_after_earnings(parse_exp(r.expiration), earnings_date))))

(***************************************************************************)
(* The frame a function works on and the frame its caller holds.  A        *)
(* working frame is the caller's frame itself or a frame of its own;       *)
(* assigning a column to the caller's frame adds the column to the frame   *)
(* the caller holds.  No function assigns to a cell of an existing column. *)
(***************************************************************************)
\* df = options_df: the working frame is the caller's frame
no_copy(options_df) == [shared |-> TRUE, columns |-> options_df.columns]

\* df = options_df.copy()
copy(options_df) == [shared |-> FALSE, columns |-> options_df.columns]

\* df = df[mask]: a frame of its own
selection(df) == [shared |-> FALSE, columns |-> df.columns]

\* df[name] = ...
set_column(df, name) == [df EXCEPT !.columns = @ \cup {name}]

\* every working frame written through to the caller's frame
written_through(options_df, df) == [options_df EXCEPT !.columns = df.columns]

\* the caller's frame once the working frame df has been written to
seen_by_caller(options_df, df) ==
    IF df.shared THEN [options_df EXCEPT !.columns = df.columns] ELSE options_df

\* options_df as screen_options_before_earnings leaves it
screen_options_df_after(options_df) ==
    IF options_df.rows = <<>> \/ options_df.columns = {} THEN options_df
    ELSE LET df == copy(options_df)
         IN  seen_by_caller(options_df,
                 IF "expiration" \in options_df.columns
                     THEN set_column(df, "_exp_date") ELSE df)

(***************************************************************************)
(* The calls of the chain screener.                                        *)
(***************************************************************************)
\* most rows a chain holds
MaxRows == 2

Text_0118 == TextCell(strftime(Date(2024, 1, 18)))

Text_0125 == TextCell(strftime(Date(2024, 1, 25)))

Text_0126 == TextCell(strftime(Date(2024, 1, 26)))

Text_0202 == TextCell(strftime(Date(2024, 2, 2)))

Text_0126_time == TextCell(strftime(Date(2024, 1, 26)) \o <<"T", "1", "6", ":", "0", "0">>)

\* rows around an earnings date of 2024-01-25 or 2024-01-26: before it, on
\* it, on the first expiration after it and on a later one; strikes at, near
\* and far from a price of 100; IVs in decimal form, in percentage form and
\* at the threshold of the normalization
RowPool ==
    { Row(100, Text_0126, "call", 3500),
      Row(100, Text_0126, "put", 2500),
      Row(100, Text_0202, "call", 3500),
      Row(111, Text_0126, "call", 3500),
      Row(95, Text_0125, "put", 3500),
      Row(90, TextCell(Garbage), "call", 3500),
      Row(105, DateCell(Date(2024, 1, 26)), "put", 350000),
      Row(100, Text_0126_time, "call", 10 * IVUnit),
      Row(100, Text_0202, "put", 100250),
      Row(95, Text_0118, "call", 2500) }

ColumnSets ==
    {ChainColumns} \cup {ChainColumns \ {c} : c \in ChainColumns}

Chains == [columns : ColumnSets, rows : SeqsUpTo(RowPool, MaxRows)]

EarningsDates == {Date(2024, 1, 25), Date(2024, 1, 26)}

UnderlyingPrices == {100}

\* min_iv: absent, or 0.30
MinIVs == {None, Some(3000)}

\* max_strike_distance_pct: the default 10.0, and 5.0
StrikeDistances == {10, 5}

OptionTypes == {None, Some("call"), Some("put")}

InitScreen ==
    /\ pc = "ready"
    /\ ret = NoResult
    /\ \E df \in Chains, ed \in EarningsDates, up \in UnderlyingPrices, iv \in MinIVs,
          sd \in StrikeDistances, ot \in OptionTypes :
        args = [f |-> "screen_options_before_earnings", options_df |-> df,
                earnings_date |-> ed, underlying_price |-> up, min_iv |-> iv,
                max_strike_distance_pct |-> sd, option_type |-> ot]
    /\ op = args.f

ScreenOptionsBeforeEarnings ==
    /\ pc = "ready"
    /\ op = "screen_options_before_earnings"
    /\ ret' = screen_options_before_earnings(args.options_df, args.earnings_date,
                args.underlying_price, args.min_iv, args.max_strike_distance_pct,
                args.option_type)
    /\ pc' = "done"
    /\ args' = [args EXCEPT !.options_df = screen_options_df_after(args.options_df)]
    /\ UNCHANGED op

NextScreen == ScreenOptionsBeforeEarnings

SpecScreen == InitScreen /\ [][NextScreen]_vars

(***************************************************************************)
(* Claims about screen_options_before_earnings.                            *)
(***************************************************************************)
ScreenDone == pc = "done" /\ op = "screen_options_before_earnings"

\* the ordinals of the input chain's expirations strictly after earnings_date
PostEarningsOrdinals ==
    {ToOrdinal(parse_exp(args.options_df.rows[i].expiration).val) :
        i \in {j \in 1..Len(args.options_df.rows) :
                 /\ ~parse_exp(args.options_df.rows[j].expiration).none
                 /\ ToOrdinal(parse_exp(args.options_df.rows[j].expiration).val)
                      > ToOrdinal(args.earnings_date)}}

\* C3: for a chain with an expiration column, every returned row expires on
\* one date, the earliest expiration of the input chain strictly after
\* earnings_date; with no expiration strictly after it the result is empty.
C3_SingleEarliestPostEarningsExpiration ==
    (ScreenDone /\ "expiration" \in args.options_df.columns) =>
        /\ PostEarningsOrdinals = {} => ret.rows = <<>>
        /\ \A i \in 1..Len(ret.rows) :
            /\ ~parse_exp(ret.rows[i].expiration).none
            /\ ToOrdinal(parse_exp(ret.rows[i].expiration).val) \in PostEarningsOrdinals
            /\ \A o \in PostEarningsOrdinals :
                 ToOrdinal(parse_exp(ret.rows[i].expiration).val) <= o

\* a chain with a row on the earnings date and a row after it: only the
\* second is returned
C3_Witness ==
    /\ ScreenDone /\ "expiration" \in args.options_df.columns
    /\ Len(ret.rows) = 1
    /\ \E i \in 1..Len(args.options_df.rows) :
         /\ ~parse_exp(args.options_df.rows[i].expiration).none
         /\ parse_exp(args.options_df.rows[i].expiration).val = args.earnings_date

\* a chain with two expirations after earnings: the rows of the earlier one
C3_WitnessTwoExpirations ==
    /\ ScreenDone /\ "expiration" \in args.options_df.columns
    /\ Cardinality(PostEarningsOrdinals) = 2
    /\ Len(ret.rows) = 1

\* s is t with some rows left out, the others in the order of t
RECURSIVE IsSubsequence(_, _)
IsSubsequence(s, t) ==
    IF s = <<>> THEN TRUE
    ELSE IF t = <<>> THEN FALSE
    ELSE IF Head(s) = Head(t) THEN IsSubsequence(Tail(s), Tail(t))
    ELSE IsSubsequence(s, Tail(t))

\* C4: the output holds only rows of the input chain, unaltered and in input
\* order, and every returned row passes every requested filter: its strike
\* within max_strike_distance_pct of the price, its normalized IV at least
\* min_iv when min_iv is given, its option_type the requested one when one
\* is given (each for the column the chain has).
C4_OutputIsFilteredSubset ==
    ScreenDone =>
        /\ IsSubsequence(ret.rows, args.options_df.rows)
        /\ \A i \in 1..Len(ret.rows) :
            LET r == ret.rows[i] IN
            /\ "strike" \in args.options_df.columns =>
                 Abs(r.strike - args.underlying_price) * 100
                   <= args.max_strike_distance_pct * args.underlying_price
            /\ (~args.min_iv.none /\ "implied_volatility" \in args.options_df.columns) =>
                 (IF r.implied_volatility > 10 * IVUnit
                     THEN r.implied_volatility >= 100 * args.min_iv.val
                     ELSE r.implied_volatility >= args.min_iv.val)
            /\ (~args.option_type.none /\ "option_type" \in args.options_df.columns) =>
                 r.option_type = args.option_type.val

\* all three filters requested on a full chain: a row is returned and a row
\* of the same expiration is filtered out
C4_Witness ==
    /\ ScreenDone
    /\ args.options_df.columns = ChainColumns
    /\ ~args.min_iv.none /\ ~args.option_type.none
    /\ Len(ret.rows) = 1
    /\ Len(args.options_df.rows) = 2
    /\ parse_exp(args.options_df.rows[1].expiration)
         = parse_exp(args.options_df.rows[2].expiration)

\* the row passes the strike, IV and option-type filters of the call, each
\* for the column the chain has
PassesFilters(r) ==
    /\ "strike" \in args.options_df.columns =>
         Abs(r.strike - args.underlying_price) * 100
           <= args.max_strike_distance_pct * args.underlying_price
    /\ (~args.min_iv.none /\ "implied_volatility" \in args.options_df.columns) =>
         (IF r.implied_volatility > 10 * IVUnit
             THEN r.implied_volatility >= 100 * args.min_iv.val
             ELSE r.implied_volatility >= args.min_iv.val)
    /\ (~args.option_type.none /\ "option_type" \in args.options_df.columns) =>
         r.option_type = args.option_type.val

\* the input rows of the earliest expiration strictly after earnings_date
EarliestPostEarningsRows ==
    LET among(ordinals) ==
            SelectSeq(args.options_df.rows,
                LAMBDA r : /\ ~parse_exp(r.expiration).none
                           /\ ToOrdinal(parse_exp(r.expiration).val) \in ordinals
                           /\ \A o \in ordinals :
                                ToOrdinal(parse_exp(r.expiration).val) <= o)
    IN  among(PostEarningsOrdinals)

\* the input rows of a later expiration
LaterRows ==
    LET among(ordinals) ==
            SelectSeq(args.options_df.rows,
                LAMBDA r : /\ ~parse_exp(r.expiration).none
                           /\ ToOrdinal(parse_exp(r.expiration).val) \in ordinals
                           /\ \E o \in ordinals :
                                ToOrdinal(parse_exp(r.expiration).val) > o)
    IN  among(PostEarningsOrdinals)

\* C26: the expiration is fixed before the strike, IV and option-type
\* filters apply: when no row of the earliest post-earnings expiration
\* passes them the result is empty, whatever rows of a later expiration
\* would pass; a row of a later expiration is never returned.
C26_NoFallbackToLaterExpiration ==
    (ScreenDone /\ "expiration" \in args.options_df.columns) =>
        LET holds(earliest, later) ==
                /\ (\A i \in 1..Len(earliest) : ~PassesFilters(earliest[i]))
                        => ret.rows = <<>>
                /\ \A i \in 1..Len(ret.rows), j \in 1..Len(later) :
                        parse_exp(ret.rows[i].expiration) # parse_exp(later[j].expiration)
        IN  holds(EarliestPostEarningsRows, LaterRows)

\* the only row of the earliest expiration is too far from the price, a row
\* of the later expiration passes every filter: nothing is returned
C26_Witness ==
    /\ ScreenDone
    /\ args.options_df.columns = ChainColumns
    /\ Len(EarliestPostEarningsRows) = 1
    /\ ~PassesFilters(EarliestPostEarningsRows[1])
    /\ Len(LaterRows) = 1
    /\ PassesFilters(LaterRows[1])
    /\ ret.rows = <<>>

(***************************************************************************)
(* catalyst_screener.score_catalyst_play                                   *)
(*                                                                         *)
(* expected_move_pct and iv_rank are whole hundredths (8.0 is 800, 79.93   *)
(* is 7993); the three component scores are whole numbers; the composite   *)
(* before rounding is a whole number of ten-thousandths, and the returned  *)
(* composite_score and iv_rank_score are whole tenths.                     *)
(***************************************************************************)
\* round(x, 1) of x = n / unit, in tenths when unit = 10 * step: the nearest
\* tenth; of a value halfway between two tenths the binary value of the
\* float decides, so either neighbour may be returned
Round1(n, step) ==
    LET q == n \div step
        r == n % step
    IN  IF 2 * r < step THEN {q}
        ELSE IF 2 * r > step THEN {q + 1}
        ELSE {q, q + 1}

\* the sweet spot ends before the third day
time_score_early_cut(days_after_catalyst) ==
    IF days_after_catalyst < 0 THEN Max2(0, 50 + days_after_catalyst * 10)
    ELSE IF days_after_catalyst < 3 THEN 100
    ELSE IF days_after_catalyst <= 7 THEN 80
    ELSE Max2(30, 80 - (days_after_catalyst - 7) * 5)

time_score(days_after_catalyst) ==
    IF days_after_catalyst < 0 THEN Max2(0, 50 + days_after_catalyst * 10)
    ELSE IF days_after_catalyst <= 3 THEN 100
    ELSE IF days_after_catalyst <= 7 THEN 80
    ELSE Max2(30, 80 - (days_after_catalyst - 7) * 5)

move_score(expected_move_pct) ==
    IF expected_move_pct < 200 THEN 20
    ELSE IF expected_move_pct < 500 THEN 50
    ELSE IF expected_move_pct < 1000 THEN 80
    ELSE 100

\* half the weight of the IV score moved to the other two scores
composite_light_iv(iv_score, t_score, m_score) ==
    20 * iv_score + 4500 * t_score + 3500 * m_score

\* the weights of the time and the move score exchanged
composite_swapped(iv_score, t_score, m_score) ==
    40 * iv_score + 2500 * t_score + 3500 * m_score

\* (iv_score * 0.4) + (time_score * 0.35) + (move_score * 0.25), in ten-thousandths
composite(iv_score, t_score, m_score) ==
    40 * iv_score + 3500 * t_score + 2500 * m_score

StrongSell == "Strong sell premium candidate (high IV, good timing)"

StrongBuy == "Strong buy premium candidate (low IV, good timing)"

Moderate == "Moderate opportunity (consider position sizing)"

Weak == "Weak setup (proceed with caution)"

Poor == "Poor setup (consider waiting for better entry)"

\* score in ten-thousandths, iv_rank in hundredths
get_recommendation(score, iv_rank) ==
    IF score >= 80 * 10000 /\ iv_rank >= 70 * 100 THEN StrongSell
    ELSE IF score >= 80 * 10000 /\ iv_rank < 30 * 100 THEN StrongBuy
    ELSE IF score >= 60 * 10000 THEN Moderate
    ELSE IF score >= 40 * 10000 THEN Weak
    ELSE Poor

\* the set of dictionaries the call may return
score_catalyst_play(expected_move_pct, iv_rank, days_to_catalyst, days_to_expiration) ==
    LET iv_score == iv_rank
        t_score  == time_score(days_to_expiration - days_to_catalyst)
        m_score  == move_score(expected_move_pct)
        composite_score == composite(iv_score, t_score, m_score)
    IN  {[composite_score |-> c,
          iv_rank_score |-> i,
          time_alignment_score |-> t_score,
          expected_move_score |-> m_score,
          recommendation |-> get_recommendation(composite_score, iv_rank)] :
            c \in Round1(composite_score, 1000), i \in Round1(iv_score, 10)}

(***************************************************************************)
(* The calls of score_catalyst_play.                                       *)
(***************************************************************************)
\* days_to_catalyst and days_to_expiration range over 0..MaxDays
MaxDays == 20

\* iv_rank: below, at the ends of, inside and above [0, 100], and next to
\* the thresholds 30 and 70 of the recommendation
IVRanks == {-1000, 0, 1500, 2999, 3000, 5000, 6999, 7000, 7993, 8500, 10000, 12000}

\* expected_move_pct: each bin, and both sides of every bin edge
ExpectedMovePcts == {0, 199, 200, 499, 500, 800, 999, 1000, 2500}

InitScore ==
    /\ pc = "ready"
    /\ ret = NoResult
    /\ \E em \in ExpectedMovePcts, ir \in IVRanks, dc \in 0..MaxDays, de \in 0..MaxDays :
        args = [f |-> "score_catalyst_play", expected_move_pct |-> em, iv_rank |-> ir,
                days_to_catalyst |-> dc, days_to_expiration |-> de]
    /\ op = args.f

ScoreCatalystPlay ==
    /\ pc = "ready"
    /\ op = "score_catalyst_play"
    /\ ret' \in score_catalyst_play(args.expected_move_pct, args.iv_rank,
                                    args.days_to_catalyst, args.days_to_expiration)
    /\ pc' = "done"
    /\ UNCHANGED <<op, args>>

NextScore == ScoreCatalystPlay

SpecScore == InitScore /\ [][NextScore]_vars

(***************************************************************************)
(* Claims about score_catalyst_play.                                       *)
(***************************************************************************)
ScoreDone == pc = "done" /\ op = "score_catalyst_play"

DaysAfterCatalyst == args.days_to_expiration - args.days_to_catalyst

\* C6: with d = days_to_expiration - days_to_catalyst, time_alignment_score
\* is max(0, 50 + 10d) for d < 0, 100 for 0 <= d <= 3, 80 for 4 <= d <= 7
\* and max(30, 80 - 5(d - 7)) for d > 7; it is below 50 whenever the option
\* expires before the catalyst.
C6_TimeAlignmentPiecewise ==
    ScoreDone =>
        LET d == DaysAfterCatalyst
            t == ret.time_alignment_score
        IN  /\ d < 0 => (t = Max2(0, 50 + 10 * d) /\ t < 50)
            /\ d \in 0..3 => t = 100
            /\ d \in 4..7 => t = 80
            /\ d > 7 => t = Max2(30, 80 - 5 * (d - 7))

\* a call on the last day of the sweet spot
C6_Witness == ScoreDone /\ DaysAfterCatalyst = 3 /\ ret.time_alignment_score = 100

\* a call whose option expires before the catalyst
C6_WitnessBefore == ScoreDone /\ DaysAfterCatalyst = -2 /\ ret.time_alignment_score = 30

\* C7: composite_score is 0.4*iv_rank + 0.35*time_alignment_score +
\* 0.25*expected_move_score rounded to one decimal, expected_move_score being
\* 20 below 2, 50 from 2 to below 5, 80 from 5 to below 10 and 100 from 10;
\* for iv_rank in [0, 100] the composite lies in [0, 100].
C7_CompositeIsRoundedWeightedSum ==
    ScoreDone =>
        LET exact == 40 * args.iv_rank + 3500 * ret.time_alignment_score
                       + 2500 * ret.expected_move_score
        IN  /\ ret.expected_move_score =
                 (CASE args.expected_move_pct < 200 -> 20
                    [] args.expected_move_pct \in 200..499 -> 50
                    [] args.expected_move_pct \in 500..999 -> 80
                    [] args.expected_move_pct >= 1000 -> 100)
            /\ Abs(1000 * ret.composite_score - exact) <= 500
            /\ (args.iv_rank >= 0 /\ args.iv_rank <= 100 * 100) =>
                 (ret.composite_score >= 0 /\ ret.composite_score <= 100 * 10)

\* score_catalyst_play(8.0, 85.0, 5, 7): 0.4*85 + 0.35*100 + 0.25*80 = 89.0
C7_Witness ==
    /\ ScoreDone
    /\ args.expected_move_pct = 800 /\ args.iv_rank = 8500 /\ DaysAfterCatalyst = 2
    /\ ret.composite_score = 890

\* the recommendation the claim gives for a returned composite_score c
\* (tenths) and an iv_rank r (hundredths)
RecommendationOfReturned(c, r) ==
    IF c >= 80 * 10 /\ r >= 70 * 100 THEN StrongSell
    ELSE IF c >= 80 * 10 /\ r < 30 * 100 THEN StrongBuy
    ELSE IF c >= 60 * 10 THEN Moderate
    ELSE IF c >= 40 * 10 THEN Weak
    ELSE Poor

\* C8: the recommendation is fixed by the returned composite_score c and
\* iv_rank r: c >= 80 and r >= 70 strong sell; c >= 80 and r < 30 strong buy;
\* otherwise c >= 60 moderate; otherwise c >= 40 weak; otherwise poor.
C8_RecommendationFromReturnedScore ==
    ScoreDone =>
        ret.recommendation = RecommendationOfReturned(ret.composite_score, args.iv_rank)

\* C27: the strong-buy-premium recommendation is never returned: with
\* iv_rank below 30 the composite is at most 0.4*30 + 0.35*100 + 0.25*100 =
\* 72, below 80, and a composite of 80 or more with iv_rank below 70 gives
\* the moderate-opportunity text.
C27_StrongBuyNeverReturned ==
    ScoreDone =>
        /\ ret.recommendation # StrongBuy
        /\ args.iv_rank < 30 * 100 =>
              /\ ret.composite_score <= 72 * 10
              /\ composite(args.iv_rank, ret.time_alignment_score,
                           ret.expected_move_score) < 72 * 10000
        /\ (ret.composite_score >= 80 * 10 /\ args.iv_rank < 70 * 100) =>
              ret.recommendation = Moderate

\* an iv_rank just below 30 with both other scores at 100: the composite
\* rounds to 72.0
C27_Witness ==
    /\ ScoreDone
    /\ args.iv_rank = 2999
    /\ ret.time_alignment_score = 100
    /\ ret.expected_move_score = 100
    /\ ret.composite_score = 720
    /\ ret.recommendation = Moderate

\* a composite above 80 with an iv_rank just below 70
C27_WitnessHighComposite ==
    /\ ScoreDone
    /\ args.iv_rank = 6999
    /\ ret.composite_score >= 80 * 10
    /\ ret.recommendation = Moderate

(***************************************************************************)
(* iv_analytics.calculate_iv_rank                                          *)
(*                                                                         *)
(* The rank depends on current_iv, iv_low and iv_high only through the     *)
(* ratio (current_iv - iv_low) / (iv_high - iv_low), so the three are      *)
(* whole numbers of one common unit.  The rank returned is a whole number  *)
(* of hundredths (50.0 is 5000).                                           *)
(***************************************************************************)
\* round(max(0.0, min(100.0, num / den * 100)), 2) in hundredths; the ranks
\* the call may return
clamped_rank(num, den) ==
    LET n == IF den < 0 THEN -num ELSE num
        d == Abs(den)
    IN  IF n <= 0 THEN {0}
        ELSE IF n >= d THEN {100 * 100}
        ELSE Round1(n * 100 * 100, d)

\* the upper clamp min(100.0, ..) left out
unclamped_above_rank(num, den) ==
    LET n == IF den < 0 THEN -num ELSE num
        d == Abs(den)
    IN  IF n <= 0 THEN {0}
        ELSE Round1(n * 100 * 100, d)

calculate_iv_rank_unclamped(current_iv, iv_low, iv_high) ==
    IF iv_high = iv_low THEN {50 * 100}
    ELSE unclamped_above_rank(current_iv - iv_low, iv_high - iv_low)

\* the distance taken from iv_high instead of iv_low
calculate_iv_rank_from_high(current_iv, iv_low, iv_high) ==
    IF iv_high = iv_low THEN {50 * 100}
    ELSE clamped_rank(iv_high - current_iv, iv_high - iv_low)

calculate_iv_rank(current_iv, iv_low, iv_high) ==
    IF iv_high = iv_low THEN {50 * 100}
    ELSE clamped_rank(current_iv - iv_low, iv_high - iv_low)

(***************************************************************************)
(* The calls of calculate_iv_rank.                                         *)
(***************************************************************************)
\* current_iv, iv_low and iv_high range over 0..MaxLevel
MaxLevel == 8

IVLevels == 0..MaxLevel

InitRank ==
    /\ pc = "ready"
    /\ ret = NoResult
    /\ \E x \in IVLevels, lo \in IVLevels, hi \in IVLevels :
        args = [f |-> "calculate_iv_rank", current_iv |-> x, iv_low |-> lo,
                iv_high |-> hi]
    /\ op = args.f

CalculateIVRank ==
    /\ pc = "ready"
    /\ op = "calculate_iv_rank"
    /\ ret' \in calculate_iv_rank(args.current_iv, args.iv_low, args.iv_high)
    /\ pc' = "done"
    /\ UNCHANGED <<op, args>>

NextRank == CalculateIVRank

SpecRank == InitRank /\ [][NextRank]_vars

(***************************************************************************)
(* Claims about calculate_iv_rank.                                         *)
(***************************************************************************)
RankDone == pc = "done" /\ op = "calculate_iv_rank"

\* C9 as stated: the rank is within [0, 100], is 50 when lo = hi, is 0 at
\* x = lo and 100 at x = hi, is 0 for every x below lo and 100 for every x
\* above hi.
C9_RankEndpointsForEveryRange ==
    RankDone =>
        /\ ret >= 0 /\ ret <= 100 * 100
        /\ args.iv_low = args.iv_high => ret = 50 * 100
        /\ args.current_iv = args.iv_low => ret = 0
        /\ args.current_iv = args.iv_high => ret = 100 * 100
        /\ args.current_iv < args.iv_low => ret = 0
        /\ args.current_iv > args.iv_high => ret = 100 * 100

\* C9 as amended: the rank is within [0, 100] for all arguments; it is 50
\* for every x when lo = hi; when lo < hi it is 0 at x = lo and for every x
\* below lo, and 100 at x = hi and for every x above hi.
C9_RankRangeAndEndpoints ==
    RankDone =>
        /\ ret >= 0 /\ ret <= 100 * 100
        /\ args.iv_low = args.iv_high => ret = 50 * 100
        /\ args.iv_low < args.iv_high =>
            /\ args.current_iv <= args.iv_low => ret = 0
            /\ args.current_iv >= args.iv_high => ret = 100 * 100

\* a value above the high of a proper range saturates at 100
C9_Witness ==
    /\ RankDone
    /\ args.iv_low < args.iv_high /\ args.current_iv > args.iv_high
    /\ ret = 100 * 100

\* a value below a range of a single point ranks 50
C9_WitnessNoRange ==
    /\ RankDone
    /\ args.iv_low = args.iv_high /\ args.current_iv < args.iv_low
    /\ ret = 50 * 100

\* C10 as stated: for every lo and hi, no larger x ranks below the x of the
\* call.
C10_RankMonotoneForEveryRange ==
    RankDone =>
        \A x2 \in IVLevels :
            x2 > args.current_iv =>
                \A r2 \in calculate_iv_rank(x2, args.iv_low, args.iv_high) : ret <= r2

\* C10 as amended: for every lo <= hi, no larger x ranks below the x of the
\* call.
C10_RankMonotone ==
    (RankDone /\ args.iv_low <= args.iv_high) =>
        \A x2 \in IVLevels :
            x2 > args.current_iv =>
                \A r2 \in calculate_iv_rank(x2, args.iv_low, args.iv_high) : ret <= r2

\* a call strictly inside a proper range, with a rank strictly between the
\* ranks of a smaller and of a larger value
C10_Witness ==
    /\ RankDone
    /\ args.iv_low < args.current_iv /\ args.current_iv < args.iv_high
    /\ \E x1, x2 \in IVLevels :
        /\ args.iv_low < x1 /\ x1 < args.current_iv
        /\ args.current_iv < x2 /\ x2 < args.iv_high
        /\ \A r1 \in calculate_iv_rank(x1, args.iv_low, args.iv_high) : r1 < ret
        /\ \A r2 \in calculate_iv_rank(x2, args.iv_low, args.iv_high) : ret < r2

(***************************************************************************)
(* iv_analytics.get_atm_iv and iv_analytics.iv_term_structure, on the      *)
(* chains of the screener.  The ATM IV is an average of one or two cells   *)
(* and is kept as the quotient <<sum, count>>; the atm_iv of a term        *)
(* structure entry is a whole number of IVUnit-ths, as round(., 4) leaves   *)
(* it.                                                                     *)
(***************************************************************************)
\* str(cell): text as it is, a date object in ISO form
cell_str(x) == IF x.isdate THEN strftime(x.date) ELSE x.text

\* df["strike"] of a chain that has no such column
KeyError == [none |-> FALSE, raised |-> "KeyError"]

IsRaised(r) == "raised" \in DOMAIN r

\* df.loc[df["strike_diff"].idxmin(), "strike"]: the strike of the first row
\* at the least distance from the price
atm_strike(rows, underlying_price) ==
    LET diff(i) == Abs(rows[i].strike - underlying_price)
        idxmin  == CHOOSE i \in 1..Len(rows) :
                      /\ \A j \in 1..Len(rows) : diff(i) <= diff(j)
                      /\ \A j \in 1..(i - 1) : diff(j) > diff(i)
    IN  rows[idxmin].strike

\* the first IV alone, no average taken
mean_first(ivs) == <<ivs[1], 1>>

\* sum(ivs) / len(ivs)
mean(ivs) ==
    IF Len(ivs) = 1 THEN <<ivs[1], 1>> ELSE <<ivs[1] + ivs[2], 2>>

get_atm_iv(options_df, underlying_price, expiration) ==
    IF options_df.rows = <<>> \/ options_df.columns = {} THEN None
    ELSE IF "implied_volatility" \notin options_df.columns THEN None
    ELSE
    LET cols == options_df.columns
        df   == IF ~expiration.none /\ expiration.val # <<>> /\ "expiration" \in cols
                THEN SelectSeq(options_df.rows,
                       LAMBDA r : Slice10(cell_str(r.expiration)) = expiration.val)
                ELSE options_df.rows
    IN  IF df = <<>> THEN None
        ELSE IF "strike" \notin cols THEN KeyError
        ELSE
        LET atm_options == SelectSeq(df,
                             LAMBDA r : r.strike = atm_strike(df, underlying_price))
            call_iv == SelectSeq(atm_options, LAMBDA r : r.option_type = "call")
            put_iv  == SelectSeq(atm_options, LAMBDA r : r.option_type = "put")
            ivs     == (IF call_iv # <<>> THEN <<call_iv[1].implied_volatility>> ELSE <<>>)
                       \o (IF put_iv # <<>> THEN <<put_iv[1].implied_volatility>> ELSE <<>>)
        IN  IF "option_type" \in cols /\ ivs # <<>> THEN Some(mean(ivs))
            ELSE Some(<<atm_options[1].implied_volatility, 1>>)

\* Series.unique(): the distinct cells in order of first appearance
unique(cells) ==
    LET first == SelectSeq([i \in 1..Len(cells) |-> i],
                   LAMBDA i : \A j \in 1..(i - 1) : cells[j] # cells[i])
    IN  [k \in 1..Len(first) |-> cells[first[k]]]

\* iv if iv < 10 else iv / 100
normalize_iv_term_structure(iv) ==
    IF QuotientLess(iv, 10 * IVUnit) THEN iv ELSE <<iv[1], 100 * iv[2]>>

\* round(q, 4), in IVUnit-ths
round4(q) == Round1(q[1], q[2])

\* the characters of the expiration texts, in code point order
CharOrder ==
    <<" ", "-", "0", "1", "2", "3", "4", "5", "6", "7", "8", "9", ":", "T",
      "a", "b", "e", "g", "r">>

ord(c) == CHOOSE i \in 1..Len(CharOrder) : CharOrder[i] = c

\* a <= b as Python compares str
RECURSIVE StrLessEq(_, _)
StrLessEq(a, b) ==
    IF a = <<>> THEN TRUE
    ELSE IF b = <<>> THEN FALSE
    ELSE IF Head(a) = Head(b) THEN StrLessEq(Tail(a), Tail(b))
    ELSE ord(Head(a)) < ord(Head(b))

\* sort_values("expiration"), an entry placed after the entries not above it
SortInsert(sorted, x) ==
    LET below == SelectSeq(sorted, LAMBDA y : StrLessEq(y.expiration, x.expiration))
        above == SelectSeq(sorted, LAMBDA y : ~StrLessEq(y.expiration, x.expiration))
    IN  below \o <<x>> \o above

RECURSIVE sort_values(_)
sort_values(s) ==
    IF s = <<>> THEN <<>>
    ELSE SortInsert(sort_values(SubSeq(s, 1, Len(s) - 1)), s[Len(s)])

TermColumns == {"expiration", "atm_iv"}

\* the frames iv_term_structure may return: one for every way the halves
\* of round(., 4) fall
iv_term_structure(options_df, underlying_price) ==
    IF options_df.rows = <<>> \/ "expiration" \notin options_df.columns THEN {EmptyFrame}
    ELSE
    LET rows        == options_df.rows
        expirations == unique([i \in 1..Len(rows) |-> rows[i].expiration])
        exp_str(k)  == Slice10(cell_str(expirations[k]))
        iv(k)       == get_atm_iv(options_df, underlying_price, Some(exp_str(k)))
        ks          == [k \in 1..Len(expirations) |-> k]
    IN  IF \E k \in 1..Len(expirations) : IsRaised(iv(k)) THEN {KeyError}
        ELSE
        LET kept     == SelectSeq(ks, LAMBDA k : ~iv(k).none)
            rounded(k) == round4(normalize_iv_term_structure(iv(k).val))
            strs     == {exp_str(kept[n]) : n \in 1..Len(kept)}
            of(e)    == CHOOSE k \in 1..Len(expirations) : exp_str(k) = e /\ ~iv(k).none
            halves   == {f \in [strs -> UNION {rounded(of(e)) : e \in strs}] :
                           \A e \in strs : f[e] \in rounded(of(e))}
        IN  IF kept = <<>> THEN {EmptyFrame}
            ELSE {[columns |-> TermColumns,
                   rows |-> sort_values([n \in 1..Len(kept) |->
                              [expiration |-> exp_str(kept[n]),
                               atm_iv |-> f[exp_str(kept[n])]]])] : f \in halves}

\* options_df as get_atm_iv leaves it: strike_diff is assigned to the
\* working frame once the strike column has been read
get_atm_iv_df_after(options_df, underlying_price, expiration) ==
    IF options_df.rows = <<>> \/ options_df.columns = {} THEN options_df
    ELSE IF "implied_volatility" \notin options_df.columns THEN options_df
    ELSE
    LET cols      == options_df.columns
        filtering == ~expiration.none /\ expiration.val # <<>> /\ "expiration" \in cols
        rows      == IF filtering
                     THEN SelectSeq(options_df.rows,
                            LAMBDA r : Slice10(cell_str(r.expiration)) = expiration.val)
                     ELSE options_df.rows
        df        == IF filtering THEN selection(copy(options_df)) ELSE copy(options_df)
    IN  IF rows = <<>> THEN options_df
        ELSE IF "strike" \notin cols THEN options_df
        ELSE seen_by_caller(options_df, set_column(df, "strike_diff"))

\* options_df as iv_term_structure leaves it: as its calls of get_atm_iv
\* leave it
iv_term_structure_df_after(options_df, underlying_price) ==
    IF options_df.rows = <<>> \/ "expiration" \notin options_df.columns THEN options_df
    ELSE
    LET rows        == options_df.rows
        expirations == unique([i \in 1..Len(rows) |-> rows[i].expiration])
        after(k)    == get_atm_iv_df_after(options_df, underlying_price,
                           Some(Slice10(cell_str(expirations[k]))))
    IN  [options_df EXCEPT !.columns =
            @ \cup UNION {after(k).columns : k \in 1..Len(expirations)}]

(***************************************************************************)
(* The calls that normalize an IV: the chain screener with its min_iv      *)
(* filter, and the ATM IV and the term structure of the same chains.       *)
(***************************************************************************)
\* expiration of get_atm_iv: absent, empty, and days on and off the chains
AtmExpirations ==
    {None, Some(<<>>), Some(strftime(Date(2024, 1, 26))),
     Some(strftime(Date(2024, 2, 2))), Some(strftime(Date(2024, 3, 15)))}

InitAtm ==
    /\ pc = "ready"
    /\ ret = NoResult
    /\ \E df \in Chains, up \in UnderlyingPrices, ex \in AtmExpirations :
        args = [f |-> "get_atm_iv", options_df |-> df, underlying_price |-> up,
                expiration |-> ex]
    /\ op = args.f

InitTermStructure ==
    /\ pc = "ready"
    /\ ret = NoResult
    /\ \E df \in Chains, up \in UnderlyingPrices :
        args = [f |-> "iv_term_structure", options_df |-> df, underlying_price |-> up]
    /\ op = args.f

GetAtmIv ==
    /\ pc = "ready"
    /\ op = "get_atm_iv"
    /\ ret' = get_atm_iv(args.options_df, args.underlying_price, args.expiration)
    /\ pc' = "done"
    /\ args' = [args EXCEPT !.options_df = get_atm_iv_df_after(args.options_df,
                    args.underlying_price, args.expiration)]
    /\ UNCHANGED op

IvTermStructure ==
    /\ pc = "ready"
    /\ op = "iv_term_structure"
    /\ ret' \in iv_term_structure(args.options_df, args.underlying_price)
    /\ pc' = "done"
    /\ args' = [args EXCEPT !.options_df = iv_term_structure_df_after(args.options_df,
                    args.underlying_price)]
    /\ UNCHANGED op

InitNormalize == InitScreen \/ InitAtm \/ InitTermStructure

NextNormalize == ScreenOptionsBeforeEarnings \/ GetAtmIv \/ IvTermStructure

SpecNormalize == InitNormalize /\ [][NextNormalize]_vars

(***************************************************************************)
(* Claim about the normalization of IV values.                             *)
(***************************************************************************)
TermDone == pc = "done" /\ op = "iv_term_structure"

\* the stated rule: divided by 100 exactly when the raw value exceeds 10
StatedNormalization(raw) ==
    IF raw[1] > 10 * IVUnit * raw[2] THEN <<raw[1], 100 * raw[2]>> ELSE raw

\* C5: every place that normalizes an IV applies the one rule "divide by
\* 100 exactly when the raw value exceeds 10".  At the min_iv filter of
\* screen_options_before_earnings: the screen with a min_iv returns the rows
\* of the same screen without one whose IV, normalized by the rule, is at
\* least min_iv.  At iv_term_structure: the atm_iv of every entry is the ATM
\* IV of its expiration, normalized by the rule and rounded to 4 decimals.
C5_OneNormalizationRule ==
    /\ (ScreenDone /\ ~args.min_iv.none
            /\ "implied_volatility" \in args.options_df.columns)
          => ret.rows = SelectSeq(
                 screen_options_before_earnings(args.options_df, args.earnings_date,
                     args.underlying_price, None, args.max_strike_distance_pct,
                     args.option_type).rows,
                 LAMBDA r : QuotientAtLeast(
                                StatedNormalization(<<r.implied_volatility, 1>>),
                                args.min_iv.val))
    /\ (TermDone /\ ~IsRaised(ret))
          => \A n \in 1..Len(ret.rows) :
                ret.rows[n].atm_iv \in
                    round4(StatedNormalization(
                        get_atm_iv(args.options_df, args.underlying_price,
                                   Some(ret.rows[n].expiration)).val))

\* a term structure entry whose raw ATM IV is exactly 10
C5_RawTenInTermStructure ==
    /\ TermDone
    /\ ~IsRaised(ret)
    /\ \E n \in 1..Len(ret.rows) :
          get_atm_iv(args.options_df, args.underlying_price,
                     Some(ret.rows[n].expiration)).val = <<10 * IVUnit, 1>>


(***************************************************************************)
(* iv_analytics.calculate_iv_percentile.  IVs are whole levels; the        *)
(* returned percentile is a whole number of hundredths, as round(., 2)     *)
(* leaves it.                                                              *)
(***************************************************************************)
\* entries at or below current_iv counted
days_lower_inclusive(current_iv, historical_ivs) ==
    Len(SelectSeq(historical_ivs, LAMBDA iv : iv <= current_iv))

\* sum(1 for iv in historical_ivs if iv < current_iv)
days_lower(current_iv, historical_ivs) ==
    Len(SelectSeq(historical_ivs, LAMBDA iv : iv < current_iv))

calculate_iv_percentile(current_iv, historical_ivs) ==
    IF historical_ivs = <<>> THEN {50 * 100}
    ELSE Round1(days_lower(current_iv, historical_ivs) * 100 * 100, Len(historical_ivs))

\* most entries of historical_ivs
MaxHist == 3

InitPercentile ==
    /\ pc = "ready"
    /\ ret = NoResult
    /\ \E x \in IVLevels, hist \in SeqsUpTo(IVLevels, MaxHist) :
        args = [f |-> "calculate_iv_percentile", current_iv |-> x,
                historical_ivs |-> hist]
    /\ op = args.f

CalculateIVPercentile ==
    /\ pc = "ready"
    /\ op = "calculate_iv_percentile"
    /\ ret' \in calculate_iv_percentile(args.current_iv, args.historical_ivs)
    /\ pc' = "done"
    /\ UNCHANGED <<op, args>>

NextPercentile == CalculateIVPercentile

SpecPercentile == InitPercentile /\ [][NextPercentile]_vars

(***************************************************************************)
(* Claims about calculate_iv_percentile.                                   *)
(***************************************************************************)
PercentileDone == pc = "done" /\ op = "calculate_iv_percentile"

\* the entries of hist strictly less than x
StrictlyLess(x, hist) == Cardinality({i \in 1..Len(hist) : hist[i] < x})

\* C11 as stated: for a non-empty hist the percentile equals
\* 100 * (number of entries strictly less than x) / len(hist); for an empty
\* hist it is 50; it is always within [0, 100].
C11_PercentileIsExactRatio ==
    PercentileDone =>
        /\ ret >= 0 /\ ret <= 100 * 100
        /\ args.historical_ivs = <<>> => ret = 50 * 100
        /\ args.historical_ivs # <<>> =>
             ret * Len(args.historical_ivs)
                 = 100 * 100 * StrictlyLess(args.current_iv, args.historical_ivs)

\* C11, amended: for a non-empty hist the percentile is
\* 100 * (number of entries strictly less than x) / len(hist) rounded to 2
\* decimals, so it is within half a hundredth of the ratio, entries equal
\* to x do not count and a value equal to every entry yields 0; for an empty
\* hist it is 50; it is always within [0, 100].
C11_PercentileIsRoundedRatio ==
    PercentileDone =>
        /\ ret >= 0 /\ ret <= 100 * 100
        /\ args.historical_ivs = <<>> => ret = 50 * 100
        /\ args.historical_ivs # <<>> =>
             LET n     == Len(args.historical_ivs)
                 exact == 100 * 100 * StrictlyLess(args.current_iv, args.historical_ivs)
             IN  /\ 2 * Abs(ret * n - exact) <= n
                 /\ (\A i \in 1..n : args.historical_ivs[i] = args.current_iv)
                       => ret = 0

\* three entries, one below x and one equal to x: 33.33
C11_Witness ==
    /\ PercentileDone
    /\ Len(args.historical_ivs) = 3
    /\ StrictlyLess(args.current_iv, args.historical_ivs) = 1
    /\ \E i \in 1..3 : args.historical_ivs[i] = args.current_iv
    /\ ret = 3333

\* every entry equal to x
C11_WitnessAllEqual ==
    /\ PercentileDone
    /\ Len(args.historical_ivs) = 2
    /\ \A i \in 1..2 : args.historical_ivs[i] = args.current_iv
    /\ ret = 0

(***************************************************************************)
(* The calls of get_atm_iv alone.                                          *)
(***************************************************************************)
NextAtm == GetAtmIv

SpecAtm == InitAtm /\ [][NextAtm]_vars

(***************************************************************************)
(* Claims about get_atm_iv.                                                *)
(***************************************************************************)
AtmDone == pc = "done" /\ op = "get_atm_iv"

\* an expiration is asked for and the chain can tell it
ExpirationGiven ==
    /\ ~args.expiration.none
    /\ args.expiration.val # <<>>
    /\ "expiration" \in args.options_df.columns

\* the rows get_atm_iv is asked about: those of the given expiration, or all
AskedRows ==
    IF ExpirationGiven
    THEN SelectSeq(args.options_df.rows,
           LAMBDA r : Slice10(cell_str(r.expiration)) = args.expiration.val)
    ELSE args.options_df.rows

\* k is the strike of an asked row and no asked row is nearer the price
IsNearestStrike(k) ==
    /\ \E i \in 1..Len(AskedRows) : AskedRows[i].strike = k
    /\ \A i \in 1..Len(AskedRows) :
          Abs(k - args.underlying_price)
              <= Abs(AskedRows[i].strike - args.underlying_price)

\* the IVs of the asked rows of one type at strike k
IVsAt(k, type) ==
    {AskedRows[i].implied_volatility :
        i \in {j \in 1..Len(AskedRows) :
                 AskedRows[j].strike = k /\ AskedRows[j].option_type = type}}

\* C12: get_atm_iv returns None, without raising, for an empty chain, for a
\* chain with no implied_volatility column and when no row has the requested
\* expiration; otherwise, on a chain with strikes and option types, the
\* value comes from a strike nearest the price among the asked rows: the
\* average of a call IV and a put IV at that strike when both exist, and the
\* IV of the type that exists otherwise.
C12_AtmIvFromNearestStrike ==
    AtmDone =>
        /\ (\/ args.options_df.rows = <<>>
            \/ "implied_volatility" \notin args.options_df.columns
            \/ AskedRows = <<>>)
              => (~IsRaised(ret) /\ ret.none)
        /\ (/\ AskedRows # <<>>
            /\ {"implied_volatility", "strike", "option_type"}
                   \subseteq args.options_df.columns)
              => /\ ~IsRaised(ret)
                 /\ ~ret.none
                 /\ \E k \in {AskedRows[i].strike : i \in 1..Len(AskedRows)} :
                       /\ IsNearestStrike(k)
                       /\ LET calls == IVsAt(k, "call")
                              puts  == IVsAt(k, "put")
                          IN  /\ (calls # {} /\ puts # {}) =>
                                    \E c \in calls, p \in puts : ret.val = <<c + p, 2>>
                              /\ (calls # {} /\ puts = {}) =>
                                    \E c \in calls : ret.val = <<c, 1>>
                              /\ (calls = {} /\ puts # {}) =>
                                    \E p \in puts : ret.val = <<p, 1>>

\* a call and a put of different IVs at the nearest strike of the asked
\* expiration
C12_Witness ==
    /\ AtmDone
    /\ ExpirationGiven
    /\ args.options_df.columns = ChainColumns
    /\ Len(AskedRows) = 2
    /\ ret = Some(<<3500 + 2500, 2>>)

\* no row of the asked expiration
C12_WitnessNoSuchExpiration ==
    /\ AtmDone
    /\ ExpirationGiven
    /\ args.options_df.rows # <<>>
    /\ "implied_volatility" \in args.options_df.columns
    /\ AskedRows = <<>>
    /\ ret = None

\* only one type at the nearest strike, a farther strike in the chain
C12_WitnessOneType ==
    /\ AtmDone
    /\ args.options_df.columns = ChainColumns
    /\ Len(AskedRows) = 2
    /\ AskedRows[1].strike = 111
    /\ AskedRows[2].strike = 95
    /\ ret = Some(<<AskedRows[2].implied_volatility, 1>>)

\* every expiration of the chain parses
AllExpirationsParse ==
    \A i \in 1..Len(args.options_df.rows) :
        ~parse_exp(args.options_df.rows[i].expiration).none

\* the rows of the earliest expiration of the chain
EarliestRows ==
    SelectSeq(args.options_df.rows,
      LAMBDA r : \A i \in 1..Len(args.options_df.rows) :
                    ToOrdinal(parse_exp(r.expiration).val)
                        <= ToOrdinal(parse_exp(args.options_df.rows[i].expiration).val))

\* C13: called with expiration None on a chain of several expirations,
\* get_atm_iv uses the nearest expiration: what it returns is what it
\* returns for the rows of the earliest expiration alone.
C13_NoneUsesNearestExpiration ==
    (/\ AtmDone
     /\ args.expiration.none
     /\ args.options_df.columns = ChainColumns
     /\ args.options_df.rows # <<>>
     /\ AllExpirationsParse)
        => ret = get_atm_iv([columns |-> ChainColumns, rows |-> EarliestRows],
                            args.underlying_price, None)

(***************************************************************************)
(* catalyst_screener.combine_catalysts_with_options.  A catalyst is a      *)
(* record of its "date" and "name" entries, each absent or present; a      *)
(* present date is text or a date object.  date.today() is an input.       *)
(***************************************************************************)
Catalyst(date, name) == [date |-> date, name |-> name]

\* the date of a catalyst: a date object as it is, text parsed from its first
\* 10 characters, None for text that does not parse
catalyst_date_of(catalyst_date) ==
    IF catalyst_date.isdate THEN Some(catalyst_date.date)
    ELSE LET parsed(p) == IF p.ok THEN Some(p.date) ELSE None
         IN  parsed(ParseExp(catalyst_date.text))

\* both the window and the nearest expiration asked for
has_expirations_both(relevant_exps, nearest_post) ==
    relevant_exps # <<>> /\ ~nearest_post.none

\* if relevant_exps or nearest_post
has_expirations(relevant_exps, nearest_post) ==
    relevant_exps # <<>> \/ ~nearest_post.none

Unknown == <<"U", "n", "k", "n", "o", "w", "n">>

\* the body of the loop: the record appended for one catalyst, or None
combined_record(options_expirations, catalyst, today) ==
    IF catalyst.date.none THEN None
    ELSE
    LET record(catalyst_date, relevant_exps, nearest_post) ==
            IF has_expirations(relevant_exps, nearest_post)
            THEN Some([catalyst_date |-> strftime(catalyst_date),
                       catalyst_name |-> IF catalyst.name.none THEN Unknown
                                         ELSE catalyst.name.val,
                       catalyst_type |-> "event",
                       relevant_expirations |-> relevant_exps,
                       nearest_post_catalyst_expiration |-> nearest_post,
                       days_to_catalyst |-> DaysBetween(catalyst_date, today)])
            ELSE None
        dated(catalyst_date) ==
            IF catalyst_date.none THEN None
            ELSE record(catalyst_date.val,
                        filter_by_catalyst_proximity(options_expirations,
                            catalyst_date.val, 5, 7),
                        find_nearest_post_catalyst_expiration(options_expirations,
                            catalyst_date.val, 1, 14))
    IN  dated(catalyst_date_of(catalyst.date.val))

RECURSIVE combine_loop(_, _, _, _, _)
combine_loop(options_expirations, catalysts, i, today, results) ==
    IF i > Len(catalysts) THEN results
    ELSE LET appended(rec) == IF rec.none THEN results ELSE Append(results, rec.val)
         IN  combine_loop(options_expirations, catalysts, i + 1, today,
                 appended(combined_record(options_expirations, catalysts[i], today)))

\* results.sort(key=lambda x: x["days_to_catalyst"]): list.sort is stable
RECURSIVE CatalystInsert(_, _)
CatalystInsert(sorted, x) ==
    IF sorted = <<>> THEN <<x>>
    ELSE IF Head(sorted).days_to_catalyst <= x.days_to_catalyst
        THEN <<Head(sorted)>> \o CatalystInsert(Tail(sorted), x)
    ELSE <<x>> \o sorted

RECURSIVE sort_by_days_to_catalyst(_)
sort_by_days_to_catalyst(s) ==
    IF s = <<>> THEN <<>>
    ELSE CatalystInsert(sort_by_days_to_catalyst(SubSeq(s, 1, Len(s) - 1)), s[Len(s)])

combine_catalysts_with_options(options_expirations, catalysts, today) ==
    sort_by_days_to_catalyst(
        combine_loop(options_expirations, catalysts, 1, today, <<>>))

(***************************************************************************)
(* The calls of combine_catalysts_with_options.                            *)
(***************************************************************************)
\* most expirations and most catalysts of a call
MaxExps == 2

MaxCatalysts == 2

Name_Q4 == <<"Q", "4">>

Name_FDA == <<"F", "D", "A">>

Name_Launch == <<"L", "a", "u", "n", "c", "h">>

\* catalysts on 2024-01-25 (twice, under two names) and on 2024-02-10, one
\* with a date that is no date, one with no date, one with no name
CatalystPool ==
    { Catalyst(Some(TextCell(strftime(Date(2024, 1, 25)))), Some(Name_Q4)),
      Catalyst(Some(TextCell(strftime(Date(2024, 1, 25)))), Some(Name_FDA)),
      Catalyst(Some(DateCell(Date(2024, 2, 10))), Some(Name_Launch)),
      Catalyst(Some(TextCell(Garbage)), Some(Name_Q4)),
      Catalyst(None, Some(Name_FDA)),
      Catalyst(Some(DateCell(Date(2024, 1, 12))), None) }

\* expirations 6 and 5 days before 2024-01-25, and 7, 14 and 15 days after
\* it, and text that is no date
CombineExpirationPool ==
    { strftime(Date(2024, 1, 19)), strftime(Date(2024, 1, 20)),
      strftime(Date(2024, 2, 1)), strftime(Date(2024, 2, 8)),
      strftime(Date(2024, 2, 9)), Garbage }

Todays == {Date(2024, 1, 20), Date(2024, 2, 1)}

InitCombine ==
    /\ pc = "ready"
    /\ ret = NoResult
    /\ \E e \in SeqsUpTo(CombineExpirationPool, MaxExps),
          c \in SeqsUpTo(CatalystPool, MaxCatalysts), t \in Todays :
        args = [f |-> "combine_catalysts_with_options", options_expirations |-> e,
                catalysts |-> c, today |-> t]
    /\ op = args.f

CombineCatalystsWithOptions ==
    /\ pc = "ready"
    /\ op = "combine_catalysts_with_options"
    /\ ret' = combine_catalysts_with_options(args.options_expirations, args.catalysts,
                                             args.today)
    /\ pc' = "done"
    /\ UNCHANGED <<op, args>>

NextCombine == CombineCatalystsWithOptions

SpecCombine == InitCombine /\ [][NextCombine]_vars

(***************************************************************************)
(* Claims about combine_catalysts_with_options.                            *)
(***************************************************************************)
CombineDone == pc = "done" /\ op = "combine_catalysts_with_options"

\* the catalyst has a date that parses
HasParseableDate(c) ==
    ~c.date.none /\ (c.date.val.isdate \/ Parses(c.date.val.text))

DateOf(c) == IF c.date.val.isdate THEN c.date.val.date ELSE ParseExp(c.date.val.text).date

\* some expiration within [-5, +7] days of the catalyst, or within [+1, +14]
HasNearbyExpiration(c) ==
    \E i \in 1..Len(args.options_expirations) :
        \/ InClosedWindow(args.options_expirations[i], DateOf(c), -5, 7)
        \/ InClosedWindow(args.options_expirations[i], DateOf(c), 1, 14)

Qualifying ==
    {i \in 1..Len(args.catalysts) :
        HasParseableDate(args.catalysts[i]) /\ HasNearbyExpiration(args.catalysts[i])}

\* record r is the record of catalyst c
RecordOf(r, c) ==
    /\ r.catalyst_date = strftime(DateOf(c))
    /\ r.catalyst_name = (IF c.name.none THEN Unknown ELSE c.name.val)

\* C14: the output holds one record for each catalyst that has a parseable
\* date and an expiration within [-5, +7] days of it or within [+1, +14]
\* days after it, and no other record.
C14_OneRecordPerQualifyingCatalyst ==
    CombineDone =>
        /\ Len(ret) = Cardinality(Qualifying)
        /\ \A i \in Qualifying : \E n \in 1..Len(ret) : RecordOf(ret[n], args.catalysts[i])
        /\ \A n \in 1..Len(ret) : \E i \in Qualifying : RecordOf(ret[n], args.catalysts[i])

\* one catalyst kept for an expiration 5 days before it alone, the other
\* left out for a date that is no date
C14_Witness ==
    /\ CombineDone
    /\ Len(args.catalysts) = 2
    /\ Len(ret) = 1
    /\ args.options_expirations = <<strftime(Date(2024, 1, 20))>>
    /\ args.catalysts[1].date = Some(TextCell(Garbage))
    /\ ret[1].nearest_post_catalyst_expiration = None
    /\ ret[1].relevant_expirations # <<>>

\* a catalyst kept for an expiration 14 days after it alone
C14_WitnessNearestOnly ==
    /\ CombineDone
    /\ Len(ret) = 1
    /\ ret[1].relevant_expirations = <<>>
    /\ ret[1].nearest_post_catalyst_expiration = Some(strftime(Date(2024, 2, 8)))

(***************************************************************************)
(* iv_analytics.calculate_expected_move with the default annualization     *)
(* factor of 365, for the horizons build_research_summary asks about.  The *)
(* price is whole dollars and the IV a quotient of IVUnit-ths.             *)
(* math.sqrt(days / 365) is kept to 5 decimals; the returned dollars and   *)
(* range ends are whole cents and the returned percent whole hundredths,   *)
(* as round(., 2) leaves them.                                             *)
(***************************************************************************)
TimeUnit == 100000

\* math.sqrt(days_to_expiration / 365), in TimeUnit-ths
time_factor(days_to_expiration) ==
    CASE days_to_expiration = 7  -> 13848
      [] days_to_expiration = 14 -> 19585
      [] days_to_expiration = 30 -> 28669
      [] days_to_expiration = 45 -> 35112

\* the results calculate_expected_move may return: one for every way the
\* halves of round(., 2) fall
calculate_expected_move(underlying_price, iv, days_to_expiration) ==
    LET tf    == time_factor(days_to_expiration)
        cent  == (IVUnit \div 100) * TimeUnit * iv[2]
        move  == underlying_price * iv[1] * tf
        price == underlying_price * 100
    IN  {[dollars |-> m, percent |-> p, range |-> <<price + lo, price + hi>>] :
            m \in Round1(move, cent), p \in Round1(iv[1] * tf, TimeUnit * iv[2]),
            lo \in Round1(-move, cent), hi \in Round1(move, cent)}

(***************************************************************************)
(* options_research._classify_iv_environment and _generate_strategy_ideas. *)
(* iv_rank and iv_percentile are absent or whole hundredths.               *)
(***************************************************************************)
\* the percentile taken first
iv_metric_percentile_first(iv_rank, iv_percentile) ==
    IF ~iv_percentile.none THEN iv_percentile ELSE iv_rank

\* iv_rank if iv_rank is not None else iv_percentile
iv_metric_of(iv_rank, iv_percentile) ==
    IF ~iv_rank.none THEN iv_rank ELSE iv_percentile

classify_iv_environment(iv_rank, iv_percentile) ==
    IF iv_rank.none /\ iv_percentile.none THEN "unknown"
    ELSE LET iv_metric == iv_metric_of(iv_rank, iv_percentile).val
         IN  IF iv_metric >= 80 * 100 THEN "very_high"
             ELSE IF iv_metric >= 60 * 100 THEN "elevated"
             ELSE IF iv_metric >= 40 * 100 THEN "neutral"
             ELSE IF iv_metric >= 20 * 100 THEN "low"
             ELSE "very_low"

\* an entry of ideas: its strategy, bias and risk_profile
Idea(strategy, bias, risk_profile) ==
    [strategy |-> strategy, bias |-> bias, risk_profile |-> risk_profile]

\* the last idea asked for from 2 expirations on
wants_post_catalyst_from_two(has_near_catalyst, options_expirations) ==
    has_near_catalyst /\ Len(options_expirations) >= 2

\* has_near_catalyst and len(options_expirations) > 2
wants_post_catalyst(has_near_catalyst, options_expirations) ==
    has_near_catalyst /\ Len(options_expirations) > 2

generate_strategy_ideas(iv_rank, iv_percentile, has_near_catalyst, options_expirations) ==
    LET iv_metric == iv_metric_of(iv_rank, iv_percentile)
        by_metric ==
            IF iv_metric.none THEN <<>>
            ELSE IF iv_metric.val >= 70 * 100
                THEN <<Idea("iron_condor", "neutral", "defined_risk"),
                       Idea("short_strangle", "neutral", "undefined_risk")>>
                     \o (IF has_near_catalyst
                            THEN <<Idea("short_straddle_pre_earnings", "neutral",
                                        "high_risk")>>
                            ELSE <<>>)
            ELSE IF iv_metric.val <= 30 * 100
                THEN <<Idea("long_straddle", "neutral", "defined_risk"),
                       Idea("calendar_spread", "directional", "defined_risk")>>
                     \o (IF has_near_catalyst
                            THEN <<Idea("long_straddle_pre_catalyst", "neutral",
                                        "defined_risk")>>
                            ELSE <<>>)
            ELSE <<Idea("vertical_spread", "directional", "defined_risk")>>
    IN  by_metric \o (IF wants_post_catalyst(has_near_catalyst, options_expirations)
                         THEN <<Idea("post_catalyst_expiration", "neutral", "varies")>>
                         ELSE <<>>)

(***************************************************************************)
(* options_research.build_research_summary.  A trial is a record of its    *)
(* "primary_completion_date" and "brief_title" entries, each absent or     *)
(* present; it has no "title", "phase" or "nct_id" entry.  The overview    *)
(* keys expected_move_7d .. expected_move_45d are the domain of            *)
(* overview.expected_move.  date.today() is an input.                      *)
(***************************************************************************)
Trial(primary_completion_date, brief_title) ==
    [primary_completion_date |-> primary_completion_date, brief_title |-> brief_title]

\* for days in [7, 14, 30, 45]
Horizons == {7, 14, 30, 45}

\* if atm_iv: neither None nor zero
is_truthy(atm_iv) == ~atm_iv.none /\ atm_iv.val # 0

\* atm_iv if atm_iv < 10 else atm_iv / 100
normalize_iv_summary(atm_iv) ==
    IF QuotientLess(atm_iv, 10 * IVUnit) THEN atm_iv ELSE <<atm_iv[1], 100 * atm_iv[2]>>

\* the smallest terms of a quotient
Reduced(q) ==
    LET g == CHOOSE g \in 1..q[2] :
                /\ q[1] % g = 0 /\ q[2] % g = 0
                /\ \A h \in (g + 1)..q[2] : ~(q[1] % h = 0 /\ q[2] % h = 0)
    IN  <<q[1] \div g, q[2] \div g>>

\* the expected-move entries of the overview, one set of them for every way
\* the halves of the roundings fall
expected_moves(underlying_price, atm_iv) ==
    IF ~is_truthy(atm_iv) THEN {<<>>}
    ELSE LET normalized_iv == Reduced(normalize_iv_summary(<<atm_iv.val, 1>>))
             moves(days)   == calculate_expected_move(underlying_price, normalized_iv, days)
         IN  {(7 :> m7) @@ (14 :> m14) @@ (30 :> m30) @@ (45 :> m45) :
                 m7 \in moves(7), m14 \in moves(14), m30 \in moves(30),
                 m45 \in moves(45)}

\* the earnings catalyst
earnings_info(options_expirations, earnings_date, today) ==
    [type |-> "earnings",
     date |-> strftime(earnings_date),
     days_until |-> DaysBetween(earnings_date, today),
     relevant_expirations |-> filter_by_catalyst_proximity(options_expirations,
                                  earnings_date, 5, 7),
     nearest_post_expiration |-> find_nearest_post_catalyst_expiration(
                                  options_expirations, earnings_date, 1, 14)]

\* every trial considered
top_trials_all(clinical_trials) == clinical_trials

\* clinical_trials[:5]
top_trials(clinical_trials) == SubSeq(clinical_trials, 1, Min2(5, Len(clinical_trials)))

\* days_to_trial > 0
is_future(days_to_trial) == days_to_trial > 0

\* the body of the trial loop: the catalyst appended for one trial, or None
trial_info(options_expirations, trial, today) ==
    LET raw == trial.primary_completion_date
        info(trial_date, days_to_trial) ==
            IF is_future(days_to_trial)
                THEN Some([type |-> "clinical_trial",
                           name |-> IF trial.brief_title.none THEN Unknown
                                    ELSE trial.brief_title.val,
                           phase |-> None,
                           date |-> strftime(trial_date),
                           days_until |-> days_to_trial,
                           nct_id |-> None,
                           relevant_expirations |-> filter_by_catalyst_proximity(
                               options_expirations, trial_date, 5, 14)])
                ELSE None
        dated(trial_date) ==
            IF trial_date.none THEN None
            ELSE info(trial_date.val, DaysBetween(trial_date.val, today))
    IN  IF raw.none THEN None
        ELSE IF ~raw.val.isdate /\ raw.val.text = <<>> THEN None
        ELSE dated(catalyst_date_of(raw.val))

\* for trial in ...: the catalysts of the trials, in the order of the trials
trial_loop(options_expirations, trials, today) ==
    LET values(kept) == [k \in 1..Len(kept) |-> kept[k].val]
    IN  values(SelectSeq([i \in 1..Len(trials) |->
                             trial_info(options_expirations, trials[i], today)],
                         LAMBDA info : ~info.none))

\* the place of catalyst i in a sort by days_until that puts a catalyst
\* before the earlier catalysts of equal key
days_until_place_before(s, i) ==
    Cardinality({j \in 1..Len(s) : s[j].days_until < s[i].days_until})
    + Cardinality({j \in (i + 1)..Len(s) : s[j].days_until = s[i].days_until}) + 1

\* the place of catalyst i after a stable sort by days_until: behind the
\* catalysts of smaller key and the earlier catalysts of equal key
days_until_place(s, i) ==
    Cardinality({j \in 1..Len(s) : s[j].days_until < s[i].days_until})
    + Cardinality({j \in 1..(i - 1) : s[j].days_until = s[i].days_until}) + 1

\* summary["catalysts"].sort(key=lambda x: x.get("days_until", 999)): every
\* catalyst has a days_until; list.sort is stable
sort_by_days_until(s) ==
    [p \in 1..Len(s) |-> s[CHOOSE i \in 1..Len(s) : days_until_place(s, i) = p]]

\* the catalysts before the sort: the earnings catalyst, then the trials
unsorted_catalysts(options_expirations, earnings_date, clinical_trials, today) ==
    (IF earnings_date.none THEN <<>>
     ELSE <<earnings_info(options_expirations, earnings_date.val, today)>>)
    \o (IF clinical_trials.none \/ clinical_trials.val = <<>> THEN <<>>
        ELSE trial_loop(options_expirations, top_trials(clinical_trials.val), today))

\* only a catalyst still ahead counted as near
has_near_future_catalyst_of(catalysts) ==
    \E n \in 1..Len(catalysts) :
        catalysts[n].days_until > 0 /\ catalysts[n].days_until <= 14

\* any(c.get("days_until", 999) <= 14 for c in summary["catalysts"])
has_near_catalyst_of(catalysts) ==
    \E n \in 1..Len(catalysts) : catalysts[n].days_until <= 14

\* the summaries build_research_summary may return
build_research_summary(symbol, underlying_price, options_expirations, earnings_date, clinical_trials, atm_iv, iv_rank, iv_percentile, today) ==
    LET summaries(catalysts) ==
        {[symbol |-> symbol,
          underlying_price |-> underlying_price,
          overview |-> [atm_iv |-> atm_iv, iv_rank |-> iv_rank,
                        iv_percentile |-> iv_percentile,
                        iv_environment |-> classify_iv_environment(iv_rank, iv_percentile),
                        expected_move |-> moves],
          catalysts |-> catalysts,
          strategy_ideas |-> generate_strategy_ideas(iv_rank, iv_percentile,
                                 has_near_catalyst_of(catalysts), options_expirations),
          expirations_by_catalyst |->
              IF earnings_date.none THEN None
              ELSE Some(filter_by_catalyst_proximity(options_expirations,
                                                     earnings_date.val, 5, 7))] :
         moves \in expected_moves(underlying_price, atm_iv)}
    IN  summaries(sort_by_days_until(
                      unsorted_catalysts(options_expirations, earnings_date,
                                         clinical_trials, today)))

(***************************************************************************)
(* The calls of build_research_summary: long trial lists with few IV       *)
(* inputs, and few trials with every IV input.                             *)
(***************************************************************************)
\* most trials of a call
MaxTrials == 6

SummaryToday == Date(2024, 1, 20)

Name_T1 == <<"T", "1">>

Name_T2 == <<"T", "2">>

\* a trial 10 days ahead, a trial 3 days back, a trial of today
LongTrialPool ==
    { Trial(Some(TextCell(strftime(Date(2024, 1, 30)))), Some(Name_T1)),
      Trial(Some(TextCell(strftime(Date(2024, 1, 17)))), Some(Name_T2)),
      Trial(Some(TextCell(strftime(SummaryToday))), None) }

\* those, and a trial 10 days ahead dated by a date object, one 30 days
\* ahead, one whose date is no date, one with an empty date, one with none
TrialPool ==
    LongTrialPool \cup
    { Trial(Some(DateCell(Date(2024, 1, 30))), Some(Name_T2)),
      Trial(Some(TextCell(strftime(Date(2024, 2, 19)))), Some(Name_T1)),
      Trial(Some(TextCell(Garbage)), Some(Name_T1)),
      Trial(Some(TextCell(<<>>)), Some(Name_T1)),
      Trial(None, Some(Name_T1)) }

\* clinical_trials absent, empty, of one trial, and of two trials of the
\* same day in both orders
FewTrials ==
    {None, Some(<<>>)} \cup {Some(<<t>>) : t \in TrialPool}
    \cup {Some(<<Trial(Some(TextCell(strftime(Date(2024, 1, 30)))), Some(Name_T1)),
                 Trial(Some(DateCell(Date(2024, 1, 30))), Some(Name_T2))>>),
          Some(<<Trial(Some(DateCell(Date(2024, 1, 30))), Some(Name_T2)),
                 Trial(Some(TextCell(strftime(Date(2024, 1, 30)))), Some(Name_T1))>>)}

\* earnings absent, 10 and 20 days ahead, 30 days back, today
SummaryEarningsDates ==
    {None, Some(Date(2024, 1, 30)), Some(Date(2024, 2, 9)), Some(Date(2023, 12, 21)),
     Some(SummaryToday)}

\* no expiration, two, three
SummaryExpirations ==
    { <<>>,
      <<strftime(Date(2024, 2, 2)), strftime(Date(2024, 2, 9))>>,
      <<strftime(Date(2024, 1, 26)), strftime(Date(2024, 2, 2)),
        strftime(Date(2024, 2, 16))>> }

\* iv_rank and iv_percentile on both sides of every threshold
IVMetrics ==
    {None} \cup {Some(m) : m \in {0, 1999, 2000, 3000, 3001, 3999, 4000, 5999, 6000,
                                  6999, 7000, 7999, 8000, 10000}}

FewIVMetrics == {None, Some(1000), Some(9000)}

\* atm_iv: absent, 0.0, 0.30, 10.0 and 35.0
AtmIVs == {None, Some(0), Some(3000), Some(10 * IVUnit), Some(350000)}

SummaryPrices == {10}

Symbol == <<"A", "A", "P", "L">>

\* iv_rank with a coarse iv_percentile, and iv_percentile without iv_rank
MetricPairs ==
    {<<rank, pct>> : rank \in IVMetrics, pct \in FewIVMetrics}
    \cup {<<None, pct>> : pct \in IVMetrics}

SummaryArgs(up, e, ed, ct, iv, rank, pct) ==
    [f |-> "build_research_summary", symbol |-> Symbol,
     underlying_price |-> up, options_expirations |-> e,
     earnings_date |-> ed, clinical_trials |-> ct,
     atm_iv |-> iv, iv_rank |-> rank, iv_percentile |-> pct,
     today |-> SummaryToday]

\* long trial lists; few trials under every pair of metrics; every atm_iv
InitSummary ==
    /\ pc = "ready"
    /\ ret = NoResult
    /\ \E up \in SummaryPrices :
        \/ \E ct \in SeqsUpTo(LongTrialPool, MaxTrials),
              ed \in {None, Some(Date(2024, 1, 30))} :
            args = SummaryArgs(up, <<>>, ed, Some(ct), None, None, None)
        \/ \E e \in SummaryExpirations, ed \in SummaryEarningsDates,
              ct \in FewTrials, m \in MetricPairs :
            args = SummaryArgs(up, e, ed, ct, None, m[1], m[2])
        \/ \E ed \in SummaryEarningsDates, iv \in AtmIVs, rank \in FewIVMetrics :
            args = SummaryArgs(up, <<>>, ed, None, iv, rank, None)
    /\ op = args.f

BuildResearchSummary ==
    /\ pc = "ready"
    /\ op = "build_research_summary"
    /\ ret' \in build_research_summary(args.symbol, args.underlying_price,
                    args.options_expirations, args.earnings_date, args.clinical_trials,
                    args.atm_iv, args.iv_rank, args.iv_percentile, args.today)
    /\ pc' = "done"
    /\ UNCHANGED <<op, args>>

NextSummary == BuildResearchSummary

SpecSummary == InitSummary /\ [][NextSummary]_vars

\* both functions that sort catalysts
InitCatalysts == InitCombine \/ InitSummary

NextCatalysts == CombineCatalystsWithOptions \/ BuildResearchSummary

SpecCatalysts == InitCatalysts /\ [][NextCatalysts]_vars

SummaryDone == pc = "done" /\ op = "build_research_summary"

(***************************************************************************)
(* Claims about the order of catalysts.                                    *)
(***************************************************************************)
\* the catalysts of the summary in the order they were appended
SummaryInsertionOrder ==
    unsorted_catalysts(args.options_expirations, args.earnings_date,
                       args.clinical_trials, args.today)

\* the records of combine_catalysts_with_options in the order they were
\* appended
CombineInsertionOrder ==
    combine_loop(args.options_expirations, args.catalysts, 1, args.today, <<>>)

\* C15: the catalysts of build_research_summary are sorted ascending by
\* days_until and the records of combine_catalysts_with_options ascending by
\* days_to_catalyst; they are the appended records, and records of equal
\* day count keep the order in which they were appended.
C15_CatalystsSortedStably ==
    /\ SummaryDone =>
          /\ Len(ret.catalysts) = Len(SummaryInsertionOrder)
          /\ \A n \in 1..Len(ret.catalysts) : \A m \in n..Len(ret.catalysts) :
                ret.catalysts[n].days_until <= ret.catalysts[m].days_until
          /\ \A n \in 1..Len(ret.catalysts) :
                SelectSeq(ret.catalysts,
                    LAMBDA c : c.days_until = ret.catalysts[n].days_until)
                  = SelectSeq(SummaryInsertionOrder,
                    LAMBDA c : c.days_until = ret.catalysts[n].days_until)
    /\ CombineDone =>
          /\ Len(ret) = Len(CombineInsertionOrder)
          /\ \A n \in 1..Len(ret) : \A m \in n..Len(ret) :
                ret[n].days_to_catalyst <= ret[m].days_to_catalyst
          /\ \A n \in 1..Len(ret) :
                SelectSeq(ret, LAMBDA c : c.days_to_catalyst = ret[n].days_to_catalyst)
                  = SelectSeq(CombineInsertionOrder,
                    LAMBDA c : c.days_to_catalyst = ret[n].days_to_catalyst)

\* earnings and two trials of one day, the trials keeping their order
C15_Witness ==
    /\ SummaryDone
    /\ Len(ret.catalysts) = 3
    /\ ret.catalysts[1].type = "earnings"
    /\ ret.catalysts[2].type = "clinical_trial"
    /\ ret.catalysts[2].name = Name_T2
    /\ ret.catalysts[3].name = Name_T1
    /\ ret.catalysts[1].days_until = ret.catalysts[3].days_until

\* a trial moved in front of the earnings appended before it
C15_WitnessReordered ==
    /\ SummaryDone
    /\ Len(ret.catalysts) = 2
    /\ ret.catalysts[1].type = "clinical_trial"
    /\ ret.catalysts[2].type = "earnings"
    /\ ret.catalysts[1].days_until < ret.catalysts[2].days_until

\* two records of combine_catalysts_with_options of one day, in the order
\* of their catalysts, the later catalyst of the list first
C15_WitnessCombine ==
    /\ CombineDone
    /\ Len(ret) = 2
    /\ ret[1].catalyst_name = Name_FDA
    /\ ret[2].catalyst_name = Name_Q4
    /\ ret[1].days_to_catalyst = ret[2].days_to_catalyst

(***************************************************************************)
(* Claims about the overview, the trials and the strategy ideas of         *)
(* build_research_summary.                                                 *)
(***************************************************************************)
\* the effective metric: iv_rank when given, else iv_percentile
EffectiveMetric == IF ~args.iv_rank.none THEN args.iv_rank ELSE args.iv_percentile

\* the environment the stated bands give for a metric in hundredths
StatedEnvironment(m) ==
    IF m >= 8000 THEN "very_high"
    ELSE IF m >= 6000 THEN "elevated"
    ELSE IF m >= 4000 THEN "neutral"
    ELSE IF m >= 2000 THEN "low"
    ELSE "very_low"

\* C16: overview.iv_environment is the band of the effective metric
\* (very_high from 80, elevated from 60, neutral from 40, low from 20,
\* very_low below), and unknown exactly when iv_rank and iv_percentile are
\* both absent; iv_percentile plays no part when iv_rank is given.
C16_EnvironmentFromEffectiveMetric ==
    SummaryDone =>
        /\ (ret.overview.iv_environment = "unknown")
              <=> (args.iv_rank.none /\ args.iv_percentile.none)
        /\ ~EffectiveMetric.none =>
              ret.overview.iv_environment = StatedEnvironment(EffectiveMetric.val)
        /\ ~args.iv_rank.none =>
              ret.overview.iv_environment = StatedEnvironment(args.iv_rank.val)

\* an iv_rank of 20 under an iv_percentile of 90
C16_Witness ==
    /\ SummaryDone
    /\ args.iv_rank = Some(2000)
    /\ args.iv_percentile = Some(9000)
    /\ ret.overview.iv_environment = "low"

\* no iv_rank, an iv_percentile of 90
C16_WitnessPercentile ==
    /\ SummaryDone
    /\ args.iv_rank.none
    /\ args.iv_percentile = Some(9000)
    /\ ret.overview.iv_environment = "very_high"

\* C17: whenever atm_iv is supplied, whatever its value, the overview holds
\* an expected-move entry for each of the horizons 7, 14, 30 and 45 days,
\* computed from the normalized IV; when atm_iv is absent it holds none.
C17_ExpectedMovesWheneverSupplied ==
    SummaryDone =>
        /\ args.atm_iv.none => DOMAIN ret.overview.expected_move = {}
        /\ ~args.atm_iv.none =>
              /\ DOMAIN ret.overview.expected_move = Horizons
              /\ \A days \in Horizons :
                    ret.overview.expected_move[days] \in
                        calculate_expected_move(args.underlying_price,
                            Reduced(normalize_iv_summary(<<args.atm_iv.val, 1>>)), days)

\* the trials build_research_summary looks at
ConsideredTrials ==
    IF args.clinical_trials.none THEN <<>>
    ELSE SubSeq(args.clinical_trials.val, 1, Min2(5, Len(args.clinical_trials.val)))

\* the date of the trial parses and lies strictly after today
IsFutureTrial(t) ==
    /\ ~t.primary_completion_date.none
    /\ \/ t.primary_completion_date.val.isdate
       \/ Parses(t.primary_completion_date.val.text)
    /\ LET d == IF t.primary_completion_date.val.isdate
                THEN t.primary_completion_date.val.date
                ELSE ParseExp(t.primary_completion_date.val.text).date
       IN  DaysBetween(d, args.today) >= 1

TrialCatalysts == SelectSeq(ret.catalysts, LAMBDA c : c.type = "clinical_trial")

\* the catalyst the summary holds for a trial
TrialCatalystOf(c, t) ==
    /\ c.name = (IF t.brief_title.none THEN Unknown ELSE t.brief_title.val)
    /\ c.date = strftime(IF t.primary_completion_date.val.isdate
                         THEN t.primary_completion_date.val.date
                         ELSE ParseExp(t.primary_completion_date.val.text).date)

\* C18: the trial catalysts are those of the first 5 trials whose
\* primary_completion_date parses and lies strictly in the future, one for
\* each and in their order, and no other: at most 5, every one with
\* days_until >= 1, none for a trial at position 6 or later.
C18_TrialsFromFirstFive ==
    SummaryDone =>
        LET future == SelectSeq(ConsideredTrials, IsFutureTrial)
        IN  /\ Len(TrialCatalysts) = Len(future)
            /\ Len(TrialCatalysts) <= 5
            /\ \A n \in 1..Len(TrialCatalysts) : TrialCatalysts[n].days_until >= 1
            /\ \A d \in {TrialCatalysts[n].days_until : n \in 1..Len(TrialCatalysts)} :
                  LET same == SelectSeq(TrialCatalysts, LAMBDA c : c.days_until = d)
                      from == SelectSeq(future,
                                LAMBDA t : \E n \in 1..Len(same) : TrialCatalystOf(same[n], t))
                  IN  /\ Len(same) = Len(from)
                      /\ \A n \in 1..Len(same) : TrialCatalystOf(same[n], from[n])

\* six trials, the first five holding a past and a today-dated one, the
\* sixth a future one that is left out
C18_Witness ==
    /\ SummaryDone
    /\ ~args.clinical_trials.none
    /\ Len(args.clinical_trials.val) = 6
    /\ IsFutureTrial(args.clinical_trials.val[6])
    /\ ~IsFutureTrial(args.clinical_trials.val[1])
    /\ \E i \in 2..5 : args.clinical_trials.val[i].primary_completion_date
                           = Some(TextCell(strftime(args.today)))
    /\ Len(TrialCatalysts) = 3

NearCatalyst == \E n \in 1..Len(ret.catalysts) : ret.catalysts[n].days_until <= 14

\* the strategy names the stated rules give
StatedStrategies ==
    (IF EffectiveMetric.none THEN {}
     ELSE IF EffectiveMetric.val >= 7000
         THEN {"iron_condor", "short_strangle"}
              \cup (IF NearCatalyst THEN {"short_straddle_pre_earnings"} ELSE {})
     ELSE IF EffectiveMetric.val <= 3000
         THEN {"long_straddle", "calendar_spread"}
              \cup (IF NearCatalyst THEN {"long_straddle_pre_catalyst"} ELSE {})
     ELSE {"vertical_spread"})
    \cup (IF NearCatalyst /\ Len(args.options_expirations) > 2
             THEN {"post_catalyst_expiration"} ELSE {})

\* C19: the strategy names of strategy_ideas are those the effective
\* metric, a catalyst within 14 days and the number of expirations give,
\* each once: iron_condor and short_strangle from 70 (with
\* short_straddle_pre_earnings near a catalyst), long_straddle and
\* calendar_spread up to 30 (with long_straddle_pre_catalyst near a
\* catalyst), vertical_spread between, none of these without a metric, and
\* post_catalyst_expiration exactly near a catalyst with more than 2
\* expirations.
C19_StrategiesFromMetricAndCatalyst ==
    SummaryDone =>
        /\ {ret.strategy_ideas[n].strategy : n \in 1..Len(ret.strategy_ideas)}
              = StatedStrategies
        /\ Len(ret.strategy_ideas) = Cardinality(StatedStrategies)

\* a rank of 70, a catalyst 10 days ahead, three expirations
C19_Witness ==
    /\ SummaryDone
    /\ args.iv_rank = Some(7000)
    /\ NearCatalyst
    /\ Len(args.options_expirations) = 3
    /\ Len(ret.strategy_ideas) = 4
    /\ ret.strategy_ideas[4].strategy = "post_catalyst_expiration"

\* a near catalyst with two expirations: no post_catalyst_expiration
C19_WitnessTwoExpirations ==
    /\ SummaryDone
    /\ args.iv_rank = Some(3000)
    /\ NearCatalyst
    /\ Len(args.options_expirations) = 2
    /\ Len(ret.strategy_ideas) = 3
    /\ ret.strategy_ideas[3].strategy = "long_straddle_pre_catalyst"

(***************************************************************************)
(* Claim about the chain passed to the screening functions.                *)
(***************************************************************************)
\* a step of one of the three functions leaves the chain as it was passed
ChainLeftAsPassed ==
    (op \in {"screen_options_before_earnings", "get_atm_iv", "iv_term_structure"})
        => /\ args'.options_df.rows = args.options_df.rows
           /\ args'.options_df.columns = args.options_df.columns
           /\ args'.options_df.columns \cap {"_exp_date", "strike_diff"} = {}

\* C20: a call of screen_options_before_earnings, get_atm_iv or
\* iv_term_structure leaves the chain passed in as it was: the same rows,
\* the same columns, with no helper column such as _exp_date or strike_diff
\* added, and the same values, whatever the call returns.
C20_ScreeningLeavesInputChain ==
    [][ChainLeftAsPassed]_vars

\* a screen that parsed the expirations of its working frame and returned
\* rows
C20_Witness ==
    /\ ScreenDone
    /\ "expiration" \in args.options_df.columns
    /\ ret.rows # <<>>
    /\ "_exp_date" \notin args.options_df.columns

\* an ATM IV found without an expiration filter, strike_diff assigned to
\* the working frame
C20_WitnessAtm ==
    /\ AtmDone
    /\ args.expiration.none
    /\ ~IsRaised(ret)
    /\ ~ret.none
    /\ "strike_diff" \notin args.options_df.columns

\* a screen that returned an empty frame and an ATM IV that is None
C20_WitnessEmpty ==
    \/ ScreenDone /\ args.options_df.rows # <<>> /\ ret = EmptyFrame
    \/ AtmDone /\ args.options_df.rows # <<>> /\ ret = None

(***************************************************************************)
(* Claim about an earnings date that is not ahead.                         *)
(***************************************************************************)
\* the strategy names of the summary
StrategyNames == {ret.strategy_ideas[n].strategy : n \in 1..Len(ret.strategy_ideas)}

\* the earnings catalysts of the summary
EarningsCatalysts == SelectSeq(ret.catalysts, LAMBDA c : c.type = "earnings")

\* C29: whenever earnings_date is given, also for a date of today or of the
\* past, the summary holds one earnings catalyst with days_until = the days
\* from today to that date; an earnings catalyst with days_until <= 14, a
\* past one included, is a near-term catalyst and alone brings
\* short_straddle_pre_earnings (metric >= 70), long_straddle_pre_catalyst
\* (metric <= 30) and post_catalyst_expiration (more than 2 expirations);
\* every trial catalyst is ahead of today.
C29_PastEarningsIsNearCatalyst ==
    SummaryDone =>
        /\ Len(EarningsCatalysts) = IF args.earnings_date.none THEN 0 ELSE 1
        /\ ~args.earnings_date.none =>
              /\ EarningsCatalysts[1].date = strftime(args.earnings_date.val)
              /\ EarningsCatalysts[1].days_until
                   = ToOrdinal(args.earnings_date.val) - ToOrdinal(args.today)
              /\ EarningsCatalysts[1].days_until <= 14 =>
                    /\ (~EffectiveMetric.none /\ EffectiveMetric.val >= 70 * 100) =>
                          "short_straddle_pre_earnings" \in StrategyNames
                    /\ (~EffectiveMetric.none /\ EffectiveMetric.val <= 30 * 100) =>
                          "long_straddle_pre_catalyst" \in StrategyNames
                    /\ Len(args.options_expirations) > 2 =>
                          "post_catalyst_expiration" \in StrategyNames
        /\ \A n \in 1..Len(ret.catalysts) :
              ret.catalysts[n].type = "clinical_trial" => ret.catalysts[n].days_until > 0

\* earnings 30 days back and no other catalyst, a metric of 70 or more and
\* three expirations
C29_Witness ==
    /\ SummaryDone
    /\ Len(ret.catalysts) = 1
    /\ ret.catalysts[1].type = "earnings"
    /\ ret.catalysts[1].days_until = -30
    /\ Len(args.options_expirations) = 3
    /\ {"short_straddle_pre_earnings", "post_catalyst_expiration"} \subseteq StrategyNames

\* earnings of today and no other catalyst, a metric of 30 or less
C29_WitnessToday ==
    /\ SummaryDone
    /\ Len(ret.catalysts) = 1
    /\ ret.catalysts[1].type = "earnings"
    /\ ret.catalysts[1].days_until = 0
    /\ "long_straddle_pre_catalyst" \in StrategyNames

(***************************************************************************)
(* Two calls of one function with the same arguments.  The second call     *)
(* runs on the argument objects as the first call left them, and on the    *)
(* day the clock shows by then: args.today is the date date.today()        *)
(* returns, an argument of no function.  The arguments are those whose     *)
(* roundings meet no half: how a half is rounded is fixed by the binary    *)
(* value of the float being rounded.                                       *)
(***************************************************************************)
\* most midnights between the two calls
MaxTicks == 1

\* longest list passed to a function called twice
MaxTwiceLen == 2

TwiceDay == Date(2024, 1, 20)

\* the day after dt
NextDay(dt) ==
    IF dt.d < DaysInMonth(dt.y, dt.m) THEN Date(dt.y, dt.m, dt.d + 1)
    ELSE IF dt.m < 12 THEN Date(dt.y, dt.m + 1, 1)
    ELSE Date(dt.y + 1, 1, 1)

TwiceLevels == {0, 2, 3, 8}

TwiceExpirations ==
    { strftime(Date(2024, 1, 18)), strftime(Date(2024, 1, 26)),
      strftime(Date(2024, 1, 29)), Garbage }

TwiceRows ==
    { Row(100, Text_0126, "call", 3500), Row(100, Text_0202, "call", 3500),
      Row(111, Text_0126, "call", 3500), Row(105, DateCell(Date(2024, 1, 26)), "put", 350000) }

TwiceArgs ==
    {[f |-> "calculate_iv_rank", current_iv |-> x, iv_low |-> lo, iv_high |-> hi,
      today |-> TwiceDay] : x \in TwiceLevels, lo \in TwiceLevels, hi \in TwiceLevels}
    \cup
    {[f |-> "calculate_iv_percentile", current_iv |-> x, historical_ivs |-> hist,
      today |-> TwiceDay] : x \in TwiceLevels, hist \in SeqsUpTo(TwiceLevels, MaxTwiceLen)}
    \cup
    {[f |-> "calculate_expected_move", underlying_price |-> up, iv |-> iv,
      days_to_expiration |-> days, today |-> TwiceDay] :
        up \in SummaryPrices, iv \in {3000, 2500}, days \in Horizons}
    \cup
    {[f |-> "filter_by_catalyst_proximity", expirations |-> e, catalyst |-> c,
      lo |-> w[1], hi |-> w[2], today |-> TwiceDay] :
        e \in SeqsUpTo(TwiceExpirations, MaxTwiceLen), c \in CatalystDates,
        w \in ProximityWindows}
    \cup
    {[f |-> "find_nearest_post_catalyst_expiration", expirations |-> e, catalyst |-> c,
      lo |-> w[1], hi |-> w[2], today |-> TwiceDay] :
        e \in SeqsUpTo(TwiceExpirations, MaxTwiceLen), c \in CatalystDates,
        w \in NearestWindows}
    \cup
    {[f |-> "screen_options_before_earnings",
      options_df |-> [columns |-> ChainColumns, rows |-> rows],
      earnings_date |-> ed, underlying_price |-> up, min_iv |-> iv,
      max_strike_distance_pct |-> 10, option_type |-> None, today |-> TwiceDay] :
        rows \in SeqsUpTo(TwiceRows, MaxTwiceLen), ed \in EarningsDates,
        up \in UnderlyingPrices, iv \in MinIVs}
    \cup
    {[f |-> "score_catalyst_play", expected_move_pct |-> em, iv_rank |-> ir,
      days_to_catalyst |-> dc, days_to_expiration |-> de, today |-> TwiceDay] :
        em \in {800, 2500}, ir \in {5000, 8500}, dc \in 0..3, de \in 0..3}
    \cup
    {[f |-> "combine_catalysts_with_options", options_expirations |-> e,
      catalysts |-> c, today |-> TwiceDay] :
        e \in SeqsUpTo(CombineExpirationPool, 1),
        c \in SeqsUpTo(CatalystPool, MaxCatalysts)}

\* the results a call with the arguments a may return on the day a.today
ResultsOf(a) ==
    CASE a.f = "calculate_iv_rank" ->
            calculate_iv_rank(a.current_iv, a.iv_low, a.iv_high)
      [] a.f = "calculate_iv_percentile" ->
            calculate_iv_percentile(a.current_iv, a.historical_ivs)
      [] a.f = "calculate_expected_move" ->
            calculate_expected_move(a.underlying_price, <<a.iv, 1>>, a.days_to_expiration)
      [] a.f = "filter_by_catalyst_proximity" ->
            {filter_by_catalyst_proximity(a.expirations, a.catalyst, a.lo, a.hi)}
      [] a.f = "find_nearest_post_catalyst_expiration" ->
            {find_nearest_post_catalyst_expiration(a.expirations, a.catalyst, a.lo, a.hi)}
      [] a.f = "screen_options_before_earnings" ->
            {screen_options_before_earnings(a.options_df, a.earnings_date,
                a.underlying_price, a.min_iv, a.max_strike_distance_pct, a.option_type)}
      [] a.f = "score_catalyst_play" ->
            score_catalyst_play(a.expected_move_pct, a.iv_rank, a.days_to_catalyst,
                                a.days_to_expiration)
      [] a.f = "combine_catalysts_with_options" ->
            {combine_catalysts_with_options(a.options_expirations, a.catalysts, a.today)}

\* the argument objects as a call leaves them
ArgsAfter(a) ==
    IF a.f = "screen_options_before_earnings"
        THEN [a EXCEPT !.options_df = screen_options_df_after(a.options_df)]
        ELSE a

InitTwice ==
    /\ pc = "ready"
    /\ ret = NoResult
    /\ \E a \in TwiceArgs : args = a
    /\ Cardinality(ResultsOf(args)) = 1
    /\ op = args.f

CalculateExpectedMove ==
    /\ pc = "ready"
    /\ op = "calculate_expected_move"
    /\ ret' \in calculate_expected_move(args.underlying_price, <<args.iv, 1>>,
                                        args.days_to_expiration)
    /\ pc' = "done"
    /\ UNCHANGED <<op, args>>

\* midnight passes after the first call
Tick ==
    /\ pc \in {"done", "later"}
    /\ ToOrdinal(args.today) - ToOrdinal(TwiceDay) < MaxTicks
    /\ args' = [args EXCEPT !.today = NextDay(@)]
    /\ pc' = "later"
    /\ UNCHANGED <<op, ret>>

\* the second call, on the day of the first call or on a later day
CallAgain ==
    /\ pc \in {"done", "later"}
    /\ \E r \in ResultsOf(args) : ret' = [first |-> ret, second |-> r]
    /\ args' = ArgsAfter(args)
    /\ pc' = IF pc = "done" THEN "again" ELSE "again_later"
    /\ UNCHANGED op

NextTwice ==
    \/ CalculateIVRank
    \/ CalculateIVPercentile
    \/ CalculateExpectedMove
    \/ FilterByCatalystProximity
    \/ FindNearestPostCatalystExpiration
    \/ ScreenOptionsBeforeEarnings
    \/ ScoreCatalystPlay
    \/ CombineCatalystsWithOptions
    \/ Tick
    \/ CallAgain

SpecTwice == InitTwice /\ [][NextTwice]_vars

(***************************************************************************)
(* Claim about two calls with identical arguments.                         *)
(***************************************************************************)
CalledTwice == pc \in {"again", "again_later"}

\* the record of the first call, its days_to_catalyst counted from the day
\* of the second call
Recounted(r) ==
    [r EXCEPT !.days_to_catalyst =
        ToOrdinal(strptime(r.catalyst_date).date) - ToOrdinal(args.today)]

C21_WitnessScreen ==
    /\ pc = "again_later"
    /\ op = "screen_options_before_earnings"
    /\ Len(ret.first.rows) = 1
    /\ ret.second = ret.first

\* two calls of calculate_expected_move and of score_catalyst_play
C21_WitnessMove ==
    /\ CalledTwice
    /\ op \in {"calculate_expected_move", "score_catalyst_play"}
    /\ ret.second = ret.first

(***************************************************************************)
(* options_router: the data posted to an entry point.                      *)
(*                                                                         *)
(* data is None, a list of dictionaries ("records"), a list of Data models *)
(* ("models"), a dictionary of lists ("columns"), an OptionsChainsData     *)
(* ("chains"), a list holding a dictionary and something that is neither   *)
(* a dictionary nor a Data model ("mixed"), or a DataFrame ("frame"); its  *)
(* columns and rows are those of the frame it stands for.                  *)
(***************************************************************************)
Raised(kind, message) == [raised |-> kind, message |-> message]

OpenBBError(message) == Raised("OpenBBError", message)

Data(kind, columns, rows) == [kind |-> kind, columns |-> columns, rows |-> rows]

\* not data: None, an empty list and an empty dictionary are false
is_falsy(data) ==
    \/ data.kind = "none"
    \/ data.kind \in {"records", "models", "mixed"} /\ data.rows = <<>>
    \/ data.kind = "columns" /\ data.columns = {}

\* the frame the isinstance chain builds; DataFrame() where no branch applies
data_frame(data) ==
    IF data.kind \in {"chains", "frame", "columns", "records", "models"}
        THEN [columns |-> data.columns, rows |-> data.rows]
        ELSE EmptyFrame

\* df.empty
is_empty(df) == df.rows = <<>> \/ df.columns = {}

(***************************************************************************)
(* options_router.catalyst_screen.  datetime.today().date() is an input.   *)
(* A record of the results is a row of the screened chain, scored or not;  *)
(* scored_with keeps the arguments score_catalyst_play was called with     *)
(* for the record.                                                         *)
(***************************************************************************)
\* expected_move_pct = record_iv * ((dte / 365) ** 0.5) * 100 is at least
\* bound percent, for dte > 0 and record_iv = n / (d * IVUnit) with n > 0:
\* n * n * dte >= bound^2 * 365 * d * d * 10000, with no product of two
\* large numbers taken
move_at_least(record_iv, dte, bound) ==
    LET least(k) == record_iv[1] >= (k + record_iv[1] - 1) \div record_iv[1]
    IN  least((bound * bound * 365 * record_iv[2] * record_iv[2] * 10000 + dte - 1)
                \div dte)

\* expected_move_pct in hundredths, lowered to the nearest of 0, 2, 5 and
\* 10 percent below it: score_catalyst_play compares it with 2, 5 and 10
\* and reads it in no other way
expected_move_floor(record_iv, dte) ==
    IF dte = 0 THEN 0
    ELSE IF move_at_least(record_iv, dte, 10) THEN 1000
    ELSE IF move_at_least(record_iv, dte, 5) THEN 500
    ELSE IF move_at_least(record_iv, dte, 2) THEN 200
    ELSE 0

\* iv_rank = 70.0
iv_rank_high == 70 * 100

\* iv_rank = 50.0
iv_rank_default == 50 * 100

\* the body of the scoring loop: the scored records one record may become,
\* or a TypeError
score_record(columns, record, days_to_catalyst, today) ==
    LET exp_str == IF "expiration" \in columns
                   THEN Slice10(cell_str(record.expiration)) ELSE <<>>
        dte == IF strptime(exp_str).ok
               THEN ToOrdinal(strptime(exp_str).date) - ToOrdinal(today) ELSE 30
        raw == IF "implied_volatility" \in columns
               THEN <<record.implied_volatility, 1>> ELSE <<3000, 1>>
        record_iv == IF raw[1] # 0 /\ QuotientGreater(raw, 10 * IVUnit)
                     THEN <<raw[1], 100 * raw[2]>> ELSE raw
        scored(expected_move_pct) ==
            {[row |-> record, scored |-> TRUE,
              scored_with |-> [iv_rank |-> iv_rank_default,
                               days_to_catalyst |-> days_to_catalyst,
                               days_to_expiration |-> dte],
              catalyst_score |-> info.composite_score,
              recommendation |-> info.recommendation] :
                info \in score_catalyst_play(expected_move_pct, iv_rank_default,
                                             days_to_catalyst, dte)}
    IN  IF record_iv[1] = 0 THEN scored(500)
        ELSE IF dte < 0 THEN {Raised("TypeError", "complex")}
        ELSE scored(expected_move_floor(Reduced(record_iv), dte))

\* for record in results: the results with every record scored, or the
\* error of the first record that has one
RECURSIVE score_loop(_, _, _, _)
score_loop(columns, records, days_to_catalyst, today) ==
    IF records = <<>> THEN {[results |-> <<>>]}
    ELSE LET joined(heads, tails) ==
                 IF \E h \in heads : IsRaised(h) THEN {h \in heads : IsRaised(h)}
                 ELSE IF \E t \in tails : IsRaised(t) THEN {t \in tails : IsRaised(t)}
                 ELSE {[results |-> <<h>> \o t.results] : h \in heads, t \in tails}
         IN  joined(score_record(columns, Head(records), days_to_catalyst, today),
                    score_loop(columns, Tail(records), days_to_catalyst, today))

\* datetime.strptime(catalyst_date, "%Y-%m-%d")
catalyst_dt_of(catalyst_date) == strptime(catalyst_date)

\* the outcomes of the call: an error raised, or the results
catalyst_screen(data, catalyst_date, underlying_price, min_iv, max_strike_distance_pct, option_type, include_scoring, today) ==
    IF data.kind = "frame"
        THEN {Raised("ValueError", "The truth value of a DataFrame is ambiguous.")}
    ELSE IF is_falsy(data) THEN {OpenBBError("No data to process!")}
    ELSE IF is_empty(data_frame(data)) THEN {OpenBBError("No valid data provided!")}
    ELSE IF ~catalyst_dt_of(catalyst_date).ok
        THEN {OpenBBError("Invalid date format. Use YYYY-MM-DD")}
    ELSE IF underlying_price.none /\ "underlying_price" \notin data.columns
        THEN {OpenBBError("underlying_price must be provided or present in the data.")}
    ELSE
    LET df == data_frame(data)
        last_price == IF ~underlying_price.none THEN underlying_price.val
                      ELSE df.rows[1].underlying_price
        catalyst_dt == catalyst_dt_of(catalyst_date).date
        unscored(screened) ==
            [n \in 1..Len(screened.rows) |->
                [row |-> screened.rows[n], scored |-> FALSE]]
        results(screened) ==
            IF screened.rows = <<>> THEN {[results |-> <<>>]}
            ELSE IF ~include_scoring THEN {[results |-> unscored(screened)]}
            ELSE IF IsRaised(get_atm_iv(df, last_price, None))
                THEN {Raised("KeyError", "strike")}
            ELSE score_loop(df.columns, screened.rows,
                            ToOrdinal(catalyst_dt) - ToOrdinal(today), today)
    IN  results(screen_options_before_earnings(df, catalyst_dt, last_price, min_iv,
                    max_strike_distance_pct, option_type))

(***************************************************************************)
(* The calls of catalyst_screen.                                           *)
(***************************************************************************)
\* a posted chain has at most MaxPosted rows
MaxPosted == 2

PostedColumns == ChainColumns \cup {"underlying_price"}

PostedRow(strike, expiration, option_type, iv, price) ==
    [strike |-> strike, expiration |-> expiration, option_type |-> option_type,
     implied_volatility |-> iv, underlying_price |-> price]

\* rows around a catalyst of 2024-01-25: an expiration before it, the first
\* one after it and a later one; IVs of 0, in decimal form and in percentage
\* form
PostedRowPool ==
    { PostedRow(100, Text_0126, "call", 3500, 100),
      PostedRow(105, DateCell(Date(2024, 1, 26)), "put", 100250, 100),
      PostedRow(100, Text_0202, "call", 6, 100),
      PostedRow(100, Text_0202, "put", 0, 100),
      PostedRow(95, Text_0118, "call", 2500, 100) }

PostedColumnSets ==
    {PostedColumns} \cup {PostedColumns \ {c} :
        c \in {"underlying_price", "expiration", "strike", "implied_volatility"}}

PostedFrames == [columns : PostedColumnSets, rows : SeqsUpTo(PostedRowPool, MaxPosted)]

PostedData ==
    {Data("none", {}, <<>>), Data("records", {}, <<>>), Data("columns", {}, <<>>),
     Data("mixed", PostedColumns, <<PostedRow(100, Text_0126, "call", 3500, 100)>>)}
    \cup {Data("records", df.columns, df.rows) : df \in PostedFrames}
    \cup {Data(kind, PostedColumns, <<r>>) :
            kind \in {"models", "columns", "chains"}, r \in PostedRowPool}

\* catalyst_date: 2024-01-25 in full, with a one-digit month, followed by a
\* time, a day no month has, text that is no date, and nothing
CatalystDateTexts ==
    { strftime(Date(2024, 1, 25)),
      <<"2", "0", "2", "4", "-", "1", "-", "2", "5">>,
      strftime(Date(2024, 1, 25)) \o <<"T", "1", "6", ":", "0", "0">>,
      <<"2", "0", "2", "4", "-", "0", "2", "-", "3", "0">>,
      Garbage,
      <<>> }

\* datetime.today().date(): more than 30 days and a few days before the
\* catalyst, and after the first expiration that follows it
ScreenTodays == {Date(2023, 12, 20), Date(2024, 1, 20), Date(2024, 1, 30)}

InitCatalystScreen ==
    /\ pc = "ready"
    /\ ret = NoResult
    /\ \E data \in PostedData, cd \in CatalystDateTexts, up \in {None, Some(100)},
          ot \in {None, Some("call")}, sc \in BOOLEAN, td \in ScreenTodays :
        args = [f |-> "catalyst_screen", data |-> data, catalyst_date |-> cd,
                underlying_price |-> up, min_iv |-> None,
                max_strike_distance_pct |-> 10, option_type |-> ot,
                include_scoring |-> sc, today |-> td]
    /\ op = args.f

CatalystScreen ==
    /\ pc = "ready"
    /\ op = "catalyst_screen"
    /\ ret' \in catalyst_screen(args.data, args.catalyst_date, args.underlying_price,
                  args.min_iv, args.max_strike_distance_pct, args.option_type,
                  args.include_scoring, args.today)
    /\ pc' = "done"
    /\ UNCHANGED <<op, args>>

NextCatalystScreen == CatalystScreen

SpecCatalystScreen == InitCatalystScreen /\ [][NextCatalystScreen]_vars

(***************************************************************************)
(* Properties of catalyst_screen.                                          *)
(***************************************************************************)
CatalystScreenDone == pc = "done" /\ op = "catalyst_screen"

\* four digits, "-", two digits, "-", two digits, naming a day of the calendar
StrictDate(t) ==
    /\ Len(t) = 10
    /\ \A i \in {1, 2, 3, 4, 6, 7, 9, 10} : t[i] \in Digits
    /\ t[5] = "-" /\ t[8] = "-"
    /\ LET y == 1000 * DigitVal(t[1]) + 100 * DigitVal(t[2])
                  + 10 * DigitVal(t[3]) + DigitVal(t[4])
           m == 10 * DigitVal(t[6]) + DigitVal(t[7])
           d == 10 * DigitVal(t[9]) + DigitVal(t[10])
       IN  y >= 1 /\ m \in 1..12 /\ d >= 1 /\ d <= DaysInMonth(y, m)

\* nothing posted, or nothing in what was posted that makes a row of a chain
NoValidData(data) ==
    \/ data.kind \in {"none", "mixed"}
    \/ data.rows = <<>>
    \/ data.columns = {}

NoPrice(a) == a.underlying_price.none /\ "underlying_price" \notin a.data.columns

IsOpenBBError(r) == IsRaised(r) /\ r.raised = "OpenBBError"

\* C22: catalyst_screen ends in an OpenBBError, and so returns no results,
\* whenever no data or no valid data is posted, whenever catalyst_date is
\* not a strict YYYY-MM-DD string, and whenever underlying_price is neither
\* passed nor a column of the data
C22_ErrorWheneverACheckFails ==
    CatalystScreenDone =>
        (NoValidData(args.data) \/ ~StrictDate(args.catalyst_date) \/ NoPrice(args)
            => IsOpenBBError(ret))

ScoredRecords ==
    IF CatalystScreenDone /\ "results" \in DOMAIN ret
    THEN {ret.results[n] : n \in {k \in 1..Len(ret.results) : ret.results[k].scored}}
    ELSE {}

NeverStrong(r) ==
    /\ r.scored_with.iv_rank = 50 * 100
    /\ r.catalyst_score <= 800
    /\ r.recommendation \in {Moderate, Weak, Poor}

\* C28 as stated: every scored record is scored with iv_rank 50 and with
\* days_to_expiration above days_to_catalyst, has a catalyst_score of at
\* most 80.0 and a recommendation that is moderate, weak or poor
C28_ScoredAfterCatalystAtRank50 ==
    \A r \in ScoredRecords :
        /\ NeverStrong(r)
        /\ r.scored_with.days_to_expiration > r.scored_with.days_to_catalyst

\* C28: every scored record is scored with iv_rank 50, has a catalyst_score
\* of at most 80.0 and a recommendation that is moderate, weak or poor; it is
\* scored with days_to_expiration above days_to_catalyst when the chain has
\* an expiration column, and with days_to_expiration 30 when it has none
C28_NeverStrongAtRank50 ==
    \A r \in ScoredRecords :
        /\ NeverStrong(r)
        /\ IF "expiration" \in args.data.columns
           THEN r.scored_with.days_to_expiration > r.scored_with.days_to_catalyst
           ELSE r.scored_with.days_to_expiration = 30

\* a record of a chain with expirations scored 80.0, the most there is
C28_Witness ==
    \E r \in ScoredRecords :
        /\ "expiration" \in args.data.columns
        /\ r.catalyst_score = 800
        /\ r.recommendation = Moderate

\* a record of a chain without expirations, scored as if it expired before
\* the catalyst
C28_WitnessNoExpirations ==
    \E r \in ScoredRecords :
        /\ "expiration" \notin args.data.columns
        /\ r.scored_with.days_to_expiration < r.scored_with.days_to_catalyst

(***************************************************************************)
(* options_router.surface.  A row of the chain posted has the cells        *)
(* expiration (text), strike, option_type, dte, implied_volatility,        *)
(* open_interest, volume and underlying_price (None or a number); columns  *)
(* says which of them the frame has.  target is the name of a column; the  *)
(* calls modelled ask for implied_volatility or for a column no chain has. *)
(* A row of the results has the seven cells of the final projection, the   *)
(* cell of the target column under the name target.                        *)
(***************************************************************************)
SurfaceRow(expiration, strike, option_type, dte, iv, open_interest, volume, price) ==
    [expiration |-> expiration, strike |-> strike, option_type |-> option_type,
     dte |-> dte, implied_volatility |-> iv, open_interest |-> open_interest,
     volume |-> volume, underlying_price |-> price]

SurfaceColumns ==
    {"expiration", "strike", "option_type", "dte", "implied_volatility",
     "open_interest", "volume", "underlying_price"}

\* underlying_price or options.underlying_price.iloc[0]
last_price_of(options, underlying_price) ==
    IF ~underlying_price.none /\ underlying_price.val # 0 THEN underlying_price
    ELSE IF "underlying_price" \notin options.columns
        THEN Raised("AttributeError", "'DataFrame' object has no attribute 'underlying_price'")
    ELSE IF options.rows = <<>>
        THEN Raised("IndexError", "single positional indexer is out-of-bounds")
    ELSE options.rows[1].underlying_price

\* a strike at the price counted as above it
at_or_above(strike, last_price) == strike >= last_price

\* strike > @last_price
above(strike, last_price) == strike > last_price

\* strike < @last_price
below(strike, last_price) == strike < last_price

\* @low <= `strike` <= @high, with low = (1 - moneyness / 100) * last_price
\* and high = (1 + moneyness / 100) * last_price, the division cleared
within_moneyness(strike, moneyness, last_price) ==
    /\ (100 - moneyness) * last_price <= 100 * strike
    /\ 100 * strike <= (100 + moneyness) * last_price

\* the index (expiration, strike, option_type) of a is not above that of b
index_less_eq(a, b) ==
    IF a.expiration # b.expiration THEN StrLessEq(a.expiration, b.expiration)
    ELSE IF a.strike # b.strike THEN a.strike < b.strike
    ELSE a.option_type = b.option_type \/ a.option_type = "call"

index_insert(sorted, x) ==
    LET before == SelectSeq(sorted, LAMBDA y : index_less_eq(y, x))
        after  == SelectSeq(sorted, LAMBDA y : ~index_less_eq(y, x))
    IN  before \o <<x>> \o after

\* sort_index(): a row placed after the rows whose index is not above its own
RECURSIVE sort_index(_)
sort_index(s) ==
    IF s = <<>> THEN <<>>
    ELSE index_insert(sort_index(SubSeq(s, 1, Len(s) - 1)), s[Len(s)])

\* df[["expiration", "strike", "option_type", "dte", target, "open_interest", "volume"]]
projection(rows) ==
    [n \in 1..Len(rows) |->
        [expiration |-> rows[n].expiration, strike |-> rows[n].strike,
         option_type |-> rows[n].option_type, dte |-> rows[n].dte,
         target |-> rows[n].implied_volatility,
         open_interest |-> rows[n].open_interest, volume |-> rows[n].volume]]

\* the outcomes of the call: an error raised, or the results
surface(data, target, underlying_price, option_type, dte_min, dte_max, moneyness, strike_min, strike_max, oi, volume) ==
    IF data.kind = "frame"
        THEN {Raised("ValueError", "The truth value of a DataFrame is ambiguous.")}
    ELSE IF is_falsy(data) THEN {OpenBBError("No data to process!")}
    ELSE
    LET options == data_frame(data)
        after_price(last_price) ==
            LET kept(r) ==
                    /\ r.dte >= 0 /\ r.implied_volatility > 0
                    /\ (oi => r.open_interest > 0)
                    /\ (volume => r.volume > 0)
                    /\ (~dte_min.none => r.dte >= dte_min.val)
                    /\ (~dte_max.none => r.dte <= dte_max.val)
                    /\ (~moneyness.none /\ moneyness.val > 0
                          => within_moneyness(r.strike, moneyness.val, last_price.val))
                    /\ (~strike_min.none => r.strike >= strike_min.val)
                    /\ (~strike_max.none => r.strike <= strike_max.val)
                side(type) ==
                    SelectSeq(options.rows, LAMBDA r : r.option_type = type /\ kept(r))
                otm_calls == SelectSeq(side("call"), LAMBDA r : above(r.strike, last_price.val))
                otm_puts  == SelectSeq(side("put"), LAMBDA r : below(r.strike, last_price.val))
                itm_calls == SelectSeq(side("call"), LAMBDA r : below(r.strike, last_price.val))
                itm_puts  == SelectSeq(side("put"), LAMBDA r : above(r.strike, last_price.val))
                df == IF option_type.none THEN options.rows
                      ELSE CASE option_type.val = "otm" -> sort_index(otm_calls \o otm_puts)
                             [] option_type.val = "itm" -> sort_index(itm_calls \o itm_puts)
                             [] option_type.val = "calls" -> side("call")
                             [] option_type.val = "puts" -> side("put")
            IN  IF IsRaised(last_price) THEN {last_price}
                ELSE IF last_price.none
                    THEN {OpenBBError("Last price must be provided for options filtering, and was not found in the data.")}
                ELSE IF target \notin options.columns
                    THEN {OpenBBError("Error: No target field found.")}
                ELSE IF "dte" \notin options.columns
                    THEN {Raised("AttributeError", "days"), Raised("TypeError", "-")}
                ELSE IF oi /\ "open_interest" \notin options.columns
                    THEN {Raised("KeyError", "open_interest")}
                ELSE IF volume /\ "volume" \notin options.columns
                    THEN {Raised("KeyError", "volume")}
                ELSE IF {"open_interest", "volume"} \ options.columns # {}
                    THEN {Raised("KeyError", "not in index")}
                ELSE {[results |-> projection(df)]}
    IN  after_price(last_price_of(options, underlying_price))

(***************************************************************************)
(* The calls of surface.                                                   *)
(***************************************************************************)
\* a chain posted to surface has at most MaxSurface rows
MaxSurface == 2

Exp_0126 == strftime(Date(2024, 1, 26))

Exp_0202 == strftime(Date(2024, 2, 2))

\* rows around a price of 100: strikes above, at and below it, both sides,
\* two expirations, and rows the first query drops (dte below 0, target 0)
SurfaceRowPool ==
    { SurfaceRow(Exp_0202, 110, "call", 13, 3500, 10, 5, Some(100)),
      SurfaceRow(Exp_0126, 105, "call", 6, 3000, 0, 5, Some(100)),
      SurfaceRow(Exp_0126, 95, "put", 6, 4000, 10, 0, Some(100)),
      SurfaceRow(Exp_0126, 105, "put", 6, 2500, 10, 5, Some(100)),
      SurfaceRow(Exp_0126, 95, "call", 6, 2000, 10, 5, Some(100)),
      SurfaceRow(Exp_0126, 100, "call", 6, 3500, 10, 5, Some(100)),
      SurfaceRow(Exp_0126, 105, "call", -1, 3500, 10, 5, Some(100)),
      SurfaceRow(Exp_0126, 95, "put", 6, 0, 10, 5, Some(100)) }

\* chains with every column
SurfaceChains ==
    {Data("records", SurfaceColumns, rows) : rows \in SeqsUpTo(SurfaceRowPool, MaxSurface) \ {<<>>}}

\* data that is no chain, and chains that lack a column or the price
SurfaceOddData ==
    LET row == SurfaceRow(Exp_0126, 105, "call", 6, 3500, 10, 5, Some(100))
    IN  {Data("none", {}, <<>>), Data("records", {}, <<>>),
         Data("mixed", SurfaceColumns, <<row>>),
         Data("columns", SurfaceColumns, <<>>),
         Data("models", SurfaceColumns, <<row>>),
         Data("chains", SurfaceColumns, <<row>>),
         Data("records", SurfaceColumns, <<[row EXCEPT !.underlying_price = None]>>)}
        \cup {Data("records", SurfaceColumns \ {c}, <<row>>) :
                c \in {"underlying_price", "implied_volatility", "dte",
                       "open_interest", "volume"}}
        \cup {Data("records", SurfaceColumns \ {"underlying_price", "implied_volatility"},
                   <<row>>)}

SurfaceOptionTypes == {None, Some("otm"), Some("itm"), Some("calls"), Some("puts")}

\* dte_min and dte_max; strike_min and strike_max; oi and volume
DteBounds == {<<None, None>>, <<Some(7), None>>, <<Some(0), Some(6)>>}

StrikeBounds == {<<None, None>>, <<Some(100), None>>, <<Some(95), Some(105)>>}

OnlyFlags == {<<FALSE, FALSE>>, <<TRUE, FALSE>>, <<FALSE, TRUE>>}

\* moneyness: absent, 0, and 5 and 10 percent
Moneynesses == {None, Some(0), Some(5), Some(10)}

SurfaceArgs(data, target, up, ot, dte, m, strike, only) ==
    [f |-> "surface", data |-> data, target |-> target, underlying_price |-> up,
     option_type |-> ot, dte_min |-> dte[1], dte_max |-> dte[2], moneyness |-> m,
     strike_min |-> strike[1], strike_max |-> strike[2], oi |-> only[1],
     volume |-> only[2]]

InitSurface ==
    /\ pc = "ready"
    /\ ret = NoResult
    /\ \/ \E data \in SurfaceOddData, target \in {<<"implied_volatility">>, <<"delta">>},
             up \in {None, Some(0), Some(100)}, ot \in SurfaceOptionTypes,
             only \in OnlyFlags :
            args = SurfaceArgs(data, target[1], up, ot, <<None, None>>, None,
                               <<None, None>>, only)
       \/ \E data \in SurfaceChains, up \in {None, Some(100)},
             ot \in SurfaceOptionTypes \ {None}, dte \in DteBounds, m \in Moneynesses,
             strike \in StrikeBounds, only \in OnlyFlags :
            args = SurfaceArgs(data, "implied_volatility", up, ot, dte, m, strike, only)
    /\ op = args.f

Surface ==
    /\ pc = "ready"
    /\ op = "surface"
    /\ ret' \in surface(args.data, args.target, args.underlying_price, args.option_type,
                  args.dte_min, args.dte_max, args.moneyness, args.strike_min,
                  args.strike_max, args.oi, args.volume)
    /\ pc' = "done"
    /\ UNCHANGED <<op, args>>

NextSurface == Surface

SpecSurface == InitSurface /\ [][NextSurface]_vars

(***************************************************************************)
(* Properties of surface.                                                  *)
(***************************************************************************)
SurfaceDone == pc = "done" /\ op = "surface"

\* a price is passed, or the chain has a price in its first row
PriceResolvable(a) ==
    \/ ~a.underlying_price.none
    \/ /\ "underlying_price" \in a.data.columns
       /\ a.data.kind # "mixed"
       /\ a.data.rows # <<>>
       /\ ~a.data.rows[1].underlying_price.none

\* C23: surface ends in an OpenBBError, and returns no results, when no
\* data is posted, when the target column is not in the data, and when otm
\* or itm is asked for while no price is passed and the data has none
C23_DescriptiveErrorForEachPrecondition ==
    SurfaceDone =>
        (\/ is_falsy(args.data)
         \/ args.target \notin data_frame(args.data).columns
         \/ args.option_type \in {Some("otm"), Some("itm")} /\ ~PriceResolvable(args)
            => IsOpenBBError(ret))

\* the rows returned for otm, itm, calls or puts
SurfaceRows ==
    IF SurfaceDone /\ "results" \in DOMAIN ret /\ ~args.option_type.none
    THEN ret.results ELSE <<>>

\* the price the strikes are compared with
SurfacePrice ==
    IF ~args.underlying_price.none /\ args.underlying_price.val # 0
    THEN args.underlying_price.val
    ELSE args.data.rows[1].underlying_price.val

\* low <= strike <= high for the moneyness m, in whole numbers
InMoneynessBand(strike, m) ==
    /\ 100 * strike >= (100 - m) * SurfacePrice
    /\ 100 * strike <= (100 + m) * SurfacePrice

PassesSuppliedFilters(r, moneyness) ==
    /\ r.dte >= 0 /\ r.target > 0
    /\ (~args.dte_min.none => r.dte >= args.dte_min.val)
    /\ (~args.dte_max.none => r.dte <= args.dte_max.val)
    /\ (~moneyness.none => InMoneynessBand(r.strike, moneyness.val))
    /\ (~args.strike_min.none => r.strike >= args.strike_min.val)
    /\ (~args.strike_max.none => r.strike <= args.strike_max.val)
    /\ (args.oi => r.open_interest > 0)
    /\ (args.volume => r.volume > 0)

IsOtm(r) ==
    \/ r.option_type = "call" /\ r.strike > SurfacePrice
    \/ r.option_type = "put" /\ r.strike < SurfacePrice

IsItm(r) ==
    \/ r.option_type = "call" /\ r.strike < SurfacePrice
    \/ r.option_type = "put" /\ r.strike > SurfacePrice

\* the rows the same call returns when it asks for the other of otm and itm
OtherSide ==
    LET other == IF args.option_type = Some("otm") THEN Some("itm") ELSE Some("otm")
        rets  == surface(args.data, args.target, args.underlying_price, other,
                         args.dte_min, args.dte_max, args.moneyness, args.strike_min,
                         args.strike_max, args.oi, args.volume)
    IN  UNION {{r.results[n] : n \in 1..Len(r.results)} : r \in rets}

SortedByIndex(rows) ==
    \A i \in 1..Len(rows), j \in 1..Len(rows) :
        i < j =>
            \/ rows[i].expiration # rows[j].expiration
               /\ StrLessEq(rows[i].expiration, rows[j].expiration)
            \/ rows[i].expiration = rows[j].expiration
               /\ rows[i].strike < rows[j].strike
            \/ rows[i].expiration = rows[j].expiration
               /\ rows[i].strike = rows[j].strike
               /\ ~(rows[i].option_type = "put" /\ rows[j].option_type = "call")

SurfaceShape(moneyness) ==
    /\ \A n \in 1..Len(SurfaceRows) : PassesSuppliedFilters(SurfaceRows[n], moneyness)
    /\ args.option_type = Some("otm") =>
        \A n \in 1..Len(SurfaceRows) : IsOtm(SurfaceRows[n])
    /\ args.option_type = Some("itm") =>
        \A n \in 1..Len(SurfaceRows) : IsItm(SurfaceRows[n])
    /\ args.option_type \in {Some("otm"), Some("itm")} =>
        /\ \A n \in 1..Len(SurfaceRows) :
            /\ SurfaceRows[n] \notin OtherSide
            /\ SurfaceRows[n].strike # SurfacePrice
        /\ SortedByIndex(SurfaceRows)

\* C30 as stated: every row returned for otm, itm, calls or puts has
\* dte >= 0 and target > 0 and passes every dte, moneyness, strike,
\* open-interest and volume filter that is supplied; the otm rows are calls
\* above and puts below the price, the itm rows calls below and puts above
\* it, no row is in both results, no row has its strike at the price, and
\* both results are sorted by (expiration, strike, option_type)
C30_RowsPassEverySuppliedFilter == SurfaceShape(args.moneyness)

\* C30: the same, with the moneyness filter applied when the moneyness
\* supplied is above 0 and not applied when it is 0
C30_RowsPassEveryFilterApplied ==
    SurfaceShape(IF ~args.moneyness.none /\ args.moneyness.val > 0
                 THEN args.moneyness ELSE None)

\* two otm rows that the sort exchanged, with a dte, a moneyness and a
\* strike filter supplied
C30_Witness ==
    /\ args.option_type = Some("otm")
    /\ Len(SurfaceRows) = 2
    /\ args.data.rows[1].strike > args.data.rows[2].strike
    /\ SurfaceRows[1].strike = args.data.rows[2].strike
    /\ ~args.moneyness.none /\ args.moneyness.val > 0
    /\ ~args.dte_min.none /\ ~args.strike_max.none

\* itm rows returned while a row with its strike at the price was posted
C30_WitnessAtThePrice ==
    /\ args.option_type = Some("itm")
    /\ Len(SurfaceRows) = 1
    /\ \E n \in 1..Len(args.data.rows) : args.data.rows[n].strike = SurfacePrice

\* a moneyness of 0 supplied and a row returned
C30_WitnessMoneynessZero ==
    /\ args.moneyness = Some(0)
    /\ Len(SurfaceRows) > 0

(***************************************************************************)
(* openbb_nih.models.clinical_trials: NIHClinicalTrialsFetcher.            *)
(*                                                                         *)
(* A study of the registry is modelled by the three values transform_data  *)
(* decides on: nctId and the title of its identificationModule (None when  *)
(* the registry left them out) and primaryCompletionDateStruct, which is   *)
(* None when the key is absent and else a dictionary whose "date" is None  *)
(* or a text.  A trial record returned has nct_id and                      *)
(* primary_completion_date, a date or None.                                *)
(***************************************************************************)
Study(nctId, title, primaryCompletionDateStruct) ==
    [nctId |-> nctId, title |-> title,
     primaryCompletionDateStruct |-> primaryCompletionDateStruct]

\* {"date": ..., "type": "ESTIMATED"}
DateStruct(date) == [isdict |-> TRUE, date |-> date]

EmptyDataError(message) == Raised("EmptyDataError", message)

\* NIHClinicalTrialsData.validate_dates of the value of a date field
validate_dates(v) ==
    IF v.none THEN None
    ELSE IF v.val.date.none THEN None
    ELSE IF ParseExp(v.val.date.val).ok THEN Some(ParseExp(v.val.date.val).date)
    ELSE None

\* NIHClinicalTrialsData.model_validate(trial): nct_id and title are
\* required strings
model_validate(trial) ==
    IF trial.nct_id.none \/ trial.title.none
    THEN Raised("ValidationError", "Input should be a valid string")
    ELSE [nct_id |-> trial.nct_id.val,
          primary_completion_date |-> validate_dates(trial.primary_completion_date)]

\* primary_date as the date filter of transform_data derives it; None
\* stands for every value the tests of the filter take as false
primary_date_of(trial) ==
    LET struct == trial.primary_completion_date
    IN  IF struct.none THEN None
        ELSE IF struct.val.date.none \/ struct.val.date.val = <<>> THEN None
        ELSE IF ParseExp(struct.val.date.val).ok
            THEN Some(ParseExp(struct.val.date.val).date)
        ELSE None

\* primary_date <= query.start_date
is_on_or_before(a, b) == ToOrdinal(a) <= ToOrdinal(b)

\* primary_date < query.start_date
is_before(a, b) == ToOrdinal(a) < ToOrdinal(b)

\* primary_date > query.end_date
is_after(a, b) == ToOrdinal(a) > ToOrdinal(b)

\* the two tests that end in continue
is_skipped(query, primary_date) ==
    \/ ~query.start_date.none /\ ~primary_date.none
       /\ is_before(primary_date.val, query.start_date.val)
    \/ ~query.end_date.none /\ ~primary_date.none
       /\ is_after(primary_date.val, query.end_date.val)

\* dateType.max
date_max == Date(9999, 12, 31)

\* x.primary_completion_date or dateType.max, as an ordinal
sort_key(x) ==
    IF x.primary_completion_date.none THEN ToOrdinal(date_max)
    ELSE ToOrdinal(x.primary_completion_date.val)

trial_insert(sorted, x) ==
    LET before == SelectSeq(sorted, LAMBDA y : sort_key(y) <= sort_key(x))
        after  == SelectSeq(sorted, LAMBDA y : sort_key(y) > sort_key(x))
    IN  before \o <<x>> \o after

\* results.sort(key=...): a stable sort
RECURSIVE sort_results(_)
sort_results(s) ==
    IF s = <<>> THEN <<>>
    ELSE trial_insert(sort_results(SubSeq(s, 1, Len(s) - 1)), s[Len(s)])

\* for study in data: the results built, or the error of the first study
\* that fails validation
RECURSIVE transform_loop(_, _, _)
transform_loop(query, data, results) ==
    IF data = <<>> THEN [results |-> results]
    ELSE LET trial == [nct_id |-> Head(data).nctId, title |-> Head(data).title,
                       primary_completion_date |-> Head(data).primaryCompletionDateStruct]
             appended(validated) ==
                 IF IsRaised(validated) THEN validated
                 ELSE transform_loop(query, Tail(data), Append(results, validated))
         IN  IF is_skipped(query, primary_date_of(trial))
             THEN transform_loop(query, Tail(data), results)
             ELSE appended(model_validate(trial))

\* an empty list of results returned as it is
never_empty(results) == FALSE

\* not results
no_results(results) == results = <<>>

transform_data(query, data) ==
    IF data = <<>>
        THEN EmptyDataError("No clinical trials found for the given query.")
    ELSE LET sorted(built) ==
                 IF IsRaised(built) THEN built
                 ELSE IF no_results(built.results)
                     THEN EmptyDataError("No clinical trials found matching the date criteria.")
                 ELSE [results |-> sort_results(built.results)]
         IN  sorted(transform_loop(query, data, <<>>))

\* what amake_request hands back: nothing, an empty body, a body that
\* reports a failure, or a body with the studies found
NoResponse == [kind |-> "none"]

EmptyBody == [kind |-> "dict", keys |-> {}]

ErrorBody == [kind |-> "dict", keys |-> {"error"}]

StudiesBody(studies) == [kind |-> "dict", keys |-> {"studies"}, studies |-> studies]

\* the tail of aextract_data, from the response on
aextract_data(response) ==
    IF response.kind = "none" \/ response.keys = {} \/ "studies" \notin response.keys
    THEN <<>>
    ELSE response.studies

(***************************************************************************)
(* The queries of the trials fetcher: aextract_data, then transform_data   *)
(* on what it returned.                                                    *)
(***************************************************************************)
\* the registry answers with at most MaxStudies studies
MaxStudies == 3

NCT(n) == Some(<<"N", "C", "T", DigitChar(n)>>)

Titled == Some(<<"t">>)

\* studies that complete before, on, between, on and after the bounds
\* 2024-03-01 and 2024-06-30 of a query, one with a month for a date, one
\* with no date, and one the registry gave no identifier
StudyPool ==
    { Study(NCT(1), Titled, Some(DateStruct(Some(strftime(Date(2024, 2, 29)))))),
      Study(NCT(2), Titled, Some(DateStruct(Some(strftime(Date(2024, 3, 1)))))),
      Study(NCT(3), Titled, Some(DateStruct(Some(strftime(Date(2024, 6, 30)))))),
      Study(NCT(4), Titled, Some(DateStruct(Some(strftime(Date(2024, 7, 1)))))),
      Study(NCT(5), Titled, Some(DateStruct(Some(<<"2", "0", "2", "4", "-", "0", "5">>)))),
      Study(NCT(6), Titled, None),
      Study(NCT(7), Titled, Some(DateStruct(None))),
      Study(None, Titled, Some(DateStruct(Some(strftime(Date(2024, 4, 15)))))) }

TrialQueries ==
    [start_date : {None, Some(Date(2024, 3, 1))},
     end_date : {None, Some(Date(2024, 6, 30))}]

Responses ==
    {NoResponse, EmptyBody, ErrorBody}
    \cup {StudiesBody(s) : s \in SeqsUpTo(StudyPool, MaxStudies)}

InitTrials ==
    /\ pc = "ready"
    /\ ret = NoResult
    /\ \E query \in TrialQueries, response \in Responses :
        args = [f |-> "fetch_data", query |-> query, response |-> response,
                data |-> NoResult]
    /\ op = "aextract_data"

AextractData ==
    /\ pc = "ready"
    /\ op = "aextract_data"
    /\ args' = [args EXCEPT !.data = aextract_data(args.response)]
    /\ op' = "transform_data"
    /\ UNCHANGED <<pc, ret>>

TransformData ==
    /\ pc = "ready"
    /\ op = "transform_data"
    /\ ret' = transform_data(args.query, args.data)
    /\ pc' = "done"
    /\ UNCHANGED <<op, args>>

NextTrials == AextractData \/ TransformData

SpecTrials == InitTrials /\ [][NextTrials]_vars

(***************************************************************************)
(* Properties of the trials fetcher.                                       *)
(***************************************************************************)
TransformDone == pc = "done" /\ op = "transform_data"

TransformReturned == TransformDone /\ "results" \in DOMAIN ret

\* the primary_completion_date a record of the study has
DerivedDate(study) == validate_dates(study.primaryCompletionDateStruct)

\* the derived date is earlier than a start_date supplied or later than an
\* end_date supplied
OutsideBounds(study) ==
    /\ ~DerivedDate(study).none
    /\ \/ /\ ~args.query.start_date.none
          /\ ToOrdinal(DerivedDate(study).val) < ToOrdinal(args.query.start_date.val)
       \/ /\ ~args.query.end_date.none
          /\ ToOrdinal(DerivedDate(study).val) > ToOrdinal(args.query.end_date.val)

KeptStudies == SelectSeq(args.data, LAMBDA s : ~OutsideBounds(s))

RecordOfStudy(s) ==
    [nct_id |-> s.nctId.val, primary_completion_date |-> DerivedDate(s)]

CountIn(seq, x) == Cardinality({n \in 1..Len(seq) : seq[n] = x})

\* ascending by date, the records without a date after those with one
DatedAscending(rows) ==
    \A i \in 1..Len(rows), j \in 1..Len(rows) :
        i < j =>
            \/ rows[j].primary_completion_date.none
            \/ /\ ~rows[i].primary_completion_date.none
               /\ ToOrdinal(rows[i].primary_completion_date.val)
                    <= ToOrdinal(rows[j].primary_completion_date.val)

\* C24: the records transform_data returns are those of the studies whose
\* derived primary_completion_date is not earlier than a start_date
\* supplied nor later than an end_date supplied (a date on a bound is
\* kept, a bound not supplied excludes nothing, a study without a date is
\* kept), sorted ascending by primary_completion_date with the records
\* that have none last
C24_KeptWithinBoundsSortedByDate ==
    TransformReturned =>
        /\ Len(ret.results) = Len(KeptStudies)
        /\ \A n \in 1..Len(KeptStudies) :
            CountIn(ret.results, RecordOfStudy(KeptStudies[n]))
                = CountIn([k \in 1..Len(KeptStudies) |-> RecordOfStudy(KeptStudies[k])],
                          RecordOfStudy(KeptStudies[n]))
        /\ DatedAscending(ret.results)

\* a query with both bounds: the study on the start date is kept, the one
\* a day before it is dropped, and the study without a date is returned
\* after the dated one it preceded
C24_Witness ==
    /\ TransformReturned
    /\ ~args.query.start_date.none /\ ~args.query.end_date.none
    /\ Len(args.data) = 3 /\ Len(ret.results) = 2
    /\ \E n \in 1..3 : DerivedDate(args.data[n]) = Some(Date(2024, 2, 29))
    /\ ret.results[1].primary_completion_date = args.query.start_date
    /\ ret.results[2].primary_completion_date.none
    /\ ret.results[2].nct_id = args.data[1].nctId.val

\* a study on the end date kept and one a day after it dropped
C24_WitnessEndDate ==
    /\ TransformReturned
    /\ args.query.start_date.none
    /\ Len(args.data) = 2 /\ Len(ret.results) = 1
    /\ ret.results[1].primary_completion_date = args.query.end_date

\* C25: aextract_data returns an empty list when there is no response, an
\* empty one, or one without a studies list; transform_data raises
\* EmptyDataError for an empty input and for an input all of whose studies
\* the date bounds exclude; a list transform_data returns is never empty
C25_NoSilentEmptySuccess ==
    /\ op = "transform_data" =>
        (args.response.kind = "none" \/ "studies" \notin args.response.keys
            => args.data = <<>>)
    /\ TransformDone =>
        /\ args.data = <<>> \/ KeptStudies = <<>>
            => IsRaised(ret) /\ ret.raised = "EmptyDataError"
        /\ "results" \in DOMAIN ret => Len(ret.results) > 0

\* studies were found and the date bounds excluded every one of them
C25_Witness ==
    /\ TransformDone
    /\ Len(args.data) = 2
    /\ KeptStudies = <<>>
    /\ ret = EmptyDataError("No clinical trials found matching the date criteria.")

\* the registry reported a failure and the query ended in the no-data error
C25_WitnessFailedResponse ==
    /\ TransformDone
    /\ args.response = ErrorBody
    /\ ret = EmptyDataError("No clinical trials found for the given query.")
=============================================================================
